---- MODULE Spec2Model ----
(***************************************************************************)
(* DataCert: trust scorer, integrity verifier, ledger publisher, the       *)
(* dataset_certificate ledger module, the access gate and the blockchain   *)
(* indexer, modelled as state machines.                                     *)
(*                                                                         *)
(* The module holds several specifications over one set of variables; each *)
(* one drives one subsystem and leaves the variables of the others at      *)
(* their initial values:                                                   *)
(*   SpecScore      calculateTrustScore / verifyDataIntegrity              *)
(*   SpecPublisher  the five SuiClient operations                          *)
(*   SpecNautilus   requestNautilusVerification against the ledger's       *)
(*                  trust oracle and enclave verifier                      *)
(*   SpecAccess     datasetService.recordAccess against the ledger's       *)
(*                  certificate and access registry                        *)
(*   SpecIndexer    BlockchainIndexer: start, stop, the backfill and poll  *)
(*                  passes, step by step at their awaits                   *)
(*   SpecClaims     datasetService.addClaim against the ledger's claim     *)
(*                  registry, and the indexer's processClaimEvent          *)
(*   SpecBackfill   BlockchainIndexer kept running, with a healthy         *)
(*                  database, over a ledger of about one page of events    *)
(*   SpecLedger     the dataset_certificate module's entry functions,      *)
(*                  called directly by the holders of its capabilities     *)
(*   SpecClaimEvents  the ledger's file_claim and the indexer's            *)
(*                  processClaimEvent over a projection without the row    *)
(*   SpecRegister   datasetService.registerDataset at its awaits, beside   *)
(*                  the indexer                                            *)
(*   SpecSuspension the network calls of verifyDataIntegrity,              *)
(*                  requestNautilusVerification and a poll cycle           *)
(***************************************************************************)
EXTENDS Integers, Sequences, FiniteSets, TLC

\* ------------------------------------------------------------------ bounds
\* Most TrustScoreHistory rows the projection holds.
MaxHistory == 2
\* Longest provenance timeline of an evidence bundle.
MaxTimeline == 5
\* Longest claim list of an evidence bundle.
MaxClaims == 3
\* Largest stake amount, offered or required.
MaxStake == 2
\* Most access requests handled.
MaxAccess == 2
\* Most AccessGranted events on the ledger.
MaxEvents == 2
\* Most passes of the indexer alive at once.
MaxLoops == 2
\* Most claims filed against the dataset.
MaxFiled == 3
\* Most transactions sent to the ledger directly.
MaxTx == 3
\* Most AccessGranted events on the ledger beyond one page of queryEvents.
MaxBeyond == 1
\* Most times each asynchronous operation is started.
MaxRuns == 2

VARIABLES
    \* ---- scorer / integrity verifier
    dataset,        \* the DatasetRecord fields the scorer and the verifier read
    integrity,      \* last result of verifyDataIntegrity (present = FALSE: none yet)
    trust,          \* last result of calculateTrustScore (computed = FALSE: none yet)
    \* ---- ledger publisher (SuiClient)
    config,         \* the process configuration: signing key and ledger object ids
    pubCall,        \* the last SuiClient call: its input, the ledger's answer, its result
    \* ---- ledger (dataset_certificate.move): trust oracle and enclave verifier
    verifier,       \* NautilusVerifier: the registered enclave public key
    trustOracle,    \* TrustOracle.scores: dataset id -> TrustScore
    \* ---- enclave attestor (nautilusOracle.ts) and what it writes
    dbTrust,        \* projection: the dataset row's trust snapshot (trustFactors)
    dbTrustHistory, \* projection: the TrustScoreHistory rows, oldest first
    memTrust,       \* memoryStore: whether it holds the dataset, and its trust
    verificationCache, \* nautilusOracle's verificationCache entry of the dataset
    nautilusRun,    \* the last requestNautilusVerification: input, steps, end
    \* ---- ledger: the dataset's certificate and the access registry
    certificate,    \* DatasetCertificate of the dataset: min_stake, status
    accessRegistry, \* AccessRegistry: records, counter
    accessGranted,  \* the AccessGranted events emitted, oldest first
    ledgerLog,      \* the last record_access recordAccess submitted: inputs, answer, state before
    \* ---- access gate (datasetService.recordAccess)
    datasetRow,     \* projection: the dataset row's policy columns and certificateId
    memTimeline,    \* memoryStore: whether it holds the dataset, and its timeline
    accessLog,      \* the last recordAccess request: input, steps, end
    \* ---- blockchain indexer (BlockchainIndexer) and its projection tables
    chainEvents,    \* the AccessGranted events the ledger returns, ascending
    isRunning,      \* BlockchainIndexer.isRunning
    loops,          \* the passes alive: where each one stands, the events it still holds
    dbDatasets,     \* projection: Dataset rows by datasetId
    dbAccessRecords, \* projection: AccessRecord rows, oldest first
    \* ---- claims (datasetService.addClaim) and the ledger's claim registry
    dbClaims,       \* projection: the dataset's Claim rows, oldest first
    memClaims,      \* memoryStore: whether it holds the dataset, and its claims
    claimRegistry,  \* ClaimRegistry: records, counter
    claimRaised,    \* the ClaimRaised events emitted, oldest first
    claimLog,       \* the addClaim calls: the severities filed, the last call's steps
    indexedSeverity, \* processClaimEvent: the label derived for each event seen
    \* ---- ledger, called directly
    ledgerCall,     \* the last transaction: its function, arguments, answer, state before
    \* ---- registration (datasetService.registerDataset)
    uploadSessions, \* datasetService's uploadSessions map: the session ids it holds
    registrations,  \* the registerDataset calls: where each stands, what it did
    \* ---- the network calls of the asynchronous operations
    pending         \* each operation's call in flight, its timer, its outcome

scoreVars == <<dataset, integrity, trust>>
pubVars == <<config, pubCall>>
oracleVars == <<verifier, trustOracle>>
nautVars == <<dbTrust, dbTrustHistory, memTrust, verificationCache, nautilusRun>>
accessVars == <<certificate, accessRegistry, accessGranted, ledgerLog,
                datasetRow, memTimeline, accessLog>>
vars == <<dataset, integrity, trust, config, pubCall, verifier, trustOracle,
          dbTrust, dbTrustHistory, memTrust, verificationCache, nautilusRun,
          certificate, accessRegistry, accessGranted, ledgerLog,
          datasetRow, memTimeline, accessLog,
          chainEvents, isRunning, loops, dbDatasets, dbAccessRecords,
          dbClaims, memClaims, claimRegistry, claimRaised, claimLog,
          indexedSeverity, ledgerCall, uploadSessions, registrations, pending>>
registerVars == <<uploadSessions, registrations>>
claimVars == <<dbClaims, memClaims, claimRegistry, claimRaised, claimLog,
               indexedSeverity>>
indexerVars == <<chainEvents, isRunning, loops, dbDatasets, dbAccessRecords>>

\* What the actions of each specification leave alone.
outsideScore == <<pubVars, oracleVars, nautVars, accessVars, indexerVars,
    claimVars, ledgerCall, registerVars, pending>>
outsidePublisher == <<scoreVars, oracleVars, nautVars, accessVars, indexerVars,
    claimVars, ledgerCall, registerVars, pending>>
outsideNautilus == <<integrity, trust, pubCall, accessVars, indexerVars,
    claimVars, ledgerCall, registerVars, pending>>
outsideAccess == <<scoreVars, pubCall, oracleVars, nautVars, indexerVars,
    claimVars, ledgerCall, registerVars, pending>>
outsideIndexer == <<scoreVars, pubVars, oracleVars, nautVars, accessVars,
    claimVars, ledgerCall, registerVars, pending>>

\* ------------------------------------------------------------ value domains
Severities == {"info", "warning", "critical"}

\* dataset.metrics.downloads: both sides of every threshold of the usage table.
DownloadSamples == {0, 1, 4, 5, 19, 20, 49, 50, 99, 100}

\* A recorded digest: "" (absent) or the digest of the uploaded bytes.
RecordedHashes == {"", "h1"}
\* Digest of the bytes a gateway returns: the uploaded ones or others.
FetchedHashes == {"h1", "h2"}
RecordedRoots == {"", "r1"}

\* How fetch(blobUrl) and the reading of its body can end.
FetchOutcomes == {"ok", "network_error", "timeout", "non_2xx", "unreadable_body"}
\* How one integrity-root probe can end.
ProbeOutcomes == {"ok", "non_2xx", "network_error"}

\* Only fetched bytes are digested, and the integrity root is probed only after
\* the digests are taken: a failed fetch leaves nothing to choose.
DigestsAfter(fetch) == IF fetch = "ok" THEN FetchedHashes ELSE {""}
ProbesAfter(fetch) ==
    IF fetch = "ok" THEN [1..2 -> ProbeOutcomes] ELSE {[i \in 1..2 |-> "network_error"]}

RECURSIVE SeqsUpTo(_, _)
SeqsUpTo(S, n) ==
    IF n = 0 THEN {<<>>}
    ELSE LET shorter == SeqsUpTo(S, n - 1)
         IN  shorter \cup {Append(s, x) : s \in {t \in shorter : Len(t) = n - 1}, x \in S}

\* ------------------------------------------------------------------ scorer
\* claims.filter(c => c.severity === sev).length
CountSeverity(claims, sev) ==
    Cardinality({i \in DOMAIN claims : claims[i] = sev})

ProvenanceScore(timelineEvents) ==
    IF timelineEvents >= 5 THEN 25
    ELSE IF timelineEvents >= 3 THEN 20
    ELSE IF timelineEvents >= 2 THEN 15
    ELSE IF timelineEvents >= 1 THEN 10
    ELSE 0

IntegrityScore(sha256Verified, poseidonVerified, integrityRootValid) ==
    IF sha256Verified /\ poseidonVerified /\ integrityRootValid THEN 25
    ELSE IF sha256Verified /\ poseidonVerified THEN 20
    ELSE IF sha256Verified THEN 15
    ELSE 0

Max(a, b) == IF a >= b THEN a ELSE b

\* AuditScore with the floor at 0 left out.
AuditScoreNoFloor(claims) ==
    25 - (CountSeverity(claims, "critical") * 10)
       - (CountSeverity(claims, "warning") * 5)
       - (CountSeverity(claims, "info") * 2)

\* AuditScore with info claims added instead of deducted.
AuditScoreInfoAdds(claims) ==
    Max(0, 25 - (CountSeverity(claims, "critical") * 10)
              - (CountSeverity(claims, "warning") * 5)
              + (CountSeverity(claims, "info") * 2))

AuditScore(claims) ==
    Max(0, 25 - (CountSeverity(claims, "critical") * 10)
              - (CountSeverity(claims, "warning") * 5)
              - (CountSeverity(claims, "info") * 2))

\* UsageScore with every threshold compared strictly.
UsageScoreStrict(downloads) ==
    IF downloads > 100 THEN 25
    ELSE IF downloads > 50 THEN 20
    ELSE IF downloads > 20 THEN 15
    ELSE IF downloads > 5 THEN 10
    ELSE IF downloads > 1 THEN 5
    ELSE 0

UsageScore(downloads) ==
    IF downloads >= 100 THEN 25
    ELSE IF downloads >= 50 THEN 20
    ELSE IF downloads >= 20 THEN 15
    ELSE IF downloads >= 5 THEN 10
    ELSE IF downloads >= 1 THEN 5
    ELSE 0

NoIntegrity ==
    [present |-> FALSE, raised |-> FALSE, fetchFailed |-> FALSE,
     sha256Match |-> FALSE, poseidonMatch |-> FALSE, integrityRootValid |-> FALSE]

\* An Ed25519 signature: the key that made it and the message it was made over.
NoSignature == [key |-> "none", message |-> "none"]

\* NautilusVerificationProof (present = FALSE: the optional field left undefined)
NoProof ==
    [present |-> FALSE, verified |-> FALSE, expectedSha256 |-> "",
     computedSha256 |-> "", signature |-> NoSignature]

NoTrust ==
    [computed |-> FALSE, score |-> 0, provenanceScore |-> 0, integrityScore |-> 0,
     auditScore |-> 0, usageScore |-> 0, verifiedByNautilus |-> FALSE,
     integrityCheck |-> NoIntegrity, nautilusProof |-> NoProof]

\* calculateTrustScore(dataset, verifiedByNautilus, integrityVerification?):
\* iv.present = FALSE stands for the argument left undefined.
CalculateTrustScore(d, verifiedByNautilus, iv) ==
    LET sha256Verified == IF iv.present THEN iv.sha256Match ELSE d.sha256 # ""
        poseidonVerified == IF iv.present THEN iv.poseidonMatch ELSE d.poseidon # ""
        integrityRootValid ==
            IF iv.present THEN iv.integrityRootValid ELSE d.integrityRoot # ""
        provenanceScore == ProvenanceScore(d.timelineEvents)
        integrityScore == IntegrityScore(sha256Verified, poseidonVerified, integrityRootValid)
        auditScore == AuditScore(d.claims)
        usageScore == UsageScore(d.downloads)
    IN  [computed |-> TRUE,
         score |-> provenanceScore + integrityScore + auditScore + usageScore,
         provenanceScore |-> provenanceScore,
         integrityScore |-> integrityScore,
         auditScore |-> auditScore,
         usageScore |-> usageScore,
         verifiedByNautilus |-> verifiedByNautilus,
         integrityCheck |-> iv,
         nautilusProof |-> NoProof]

\* ------------------------------------------------------ integrity verifier
\* verifyIntegrityRoot(integrityRoot, headers): the two lookup endpoints are
\* tried in order; probes[i] is how the i-th fetch ends.
VerifyIntegrityRoot(integrityRoot, probes) ==
    IF integrityRoot = "" THEN FALSE
    ELSE IF \E i \in DOMAIN probes : probes[i] = "ok" THEN TRUE
    ELSE integrityRoot # ""

\* The catch branch, with the root still judged by its being populated.
FetchFailureResultKeepsRoot(d) ==
    [present |-> TRUE, raised |-> FALSE, fetchFailed |-> TRUE,
     sha256Match |-> FALSE, poseidonMatch |-> FALSE,
     integrityRootValid |-> d.integrityRoot # ""]

\* The catch branch of verifyDataIntegrity.
FetchFailureResult(d) ==
    [present |-> TRUE, raised |-> FALSE, fetchFailed |-> TRUE,
     sha256Match |-> FALSE, poseidonMatch |-> FALSE, integrityRootValid |-> FALSE]

\* verifyDataIntegrity(dataset): fetch is how the blob download ends, sha and
\* pos the digests recomputed over the downloaded bytes.
VerifyDataIntegrity(d, fetch, sha, pos, probes) ==
    IF fetch # "ok" THEN FetchFailureResult(d)
    ELSE [present |-> TRUE, raised |-> FALSE, fetchFailed |-> FALSE,
          sha256Match |-> IF d.sha256 # "" THEN sha = d.sha256 ELSE FALSE,
          poseidonMatch |-> IF d.poseidon # "" THEN pos = d.poseidon ELSE FALSE,
          integrityRootValid |-> VerifyIntegrityRoot(d.integrityRoot, probes)]

\* --------------------------------------------------- ledger object references
\* A string used as an object id: whether it is empty or undefined, whether it
\* starts with 0x, and how many hex digits follow (-1: other characters too).
RefUndefined == [empty |-> TRUE, prefix0x |-> FALSE, hexDigits |-> -1]
\* '0x0', the default of every ledger object id in config.ts
RefPlaceholder == [empty |-> FALSE, prefix0x |-> TRUE, hexDigits |-> 1]
\* `0xmock_cert_${datasetId}_${Date.now()}` and `0xmock_fallback_...`
RefMockCert == [empty |-> FALSE, prefix0x |-> TRUE, hexDigits |-> -1]
\* `mock-${result.digest}`
RefMockDigest == [empty |-> FALSE, prefix0x |-> FALSE, hexDigits |-> -1]
\* a 32-byte object id as the ledger prints it
RefObject == [empty |-> FALSE, prefix0x |-> TRUE, hexDigits |-> 64]

ConfigRefs == {RefPlaceholder, RefObject}
CertificateIds == {RefUndefined, RefMockCert, RefMockDigest, RefObject}

\* isValidObjectId(value): /^0x[0-9a-fA-F]{64}$/
IsValidObjectId(value) ==
    IF value.empty THEN FALSE
    ELSE value.prefix0x /\ value.hexDigits = 64

Configs ==
    [nautilusServerUrl : {""},
     keypair : BOOLEAN,
     suiClaimRegistry : ConfigRefs,
     suiAccessRegistry : ConfigRefs,
     suiAccessRecorderCap : ConfigRefs,
     suiTrustOracle : ConfigRefs,
     suiOracleCap : ConfigRefs,
     suiNautilusVerifier : ConfigRefs]

\* ------------------------------------------------------------- ledger answers
\* How client.signAndExecuteTransaction ends: the transaction executed, the
\* transport or the signer failed, or the ledger aborted it with a code.
Executed == [kind |-> "executed", code |-> 0]
Fault(kind) == [kind |-> kind, code |-> 0]
Abort(code) == [kind |-> "abort", code |-> code]
TransportFaults ==
    {Fault("network_fault"), Fault("insufficient_funds"), Fault("signature_failure")}

ENAUTILUS_NOT_INITIALIZED == 10
ENAUTILUS_INVALID_SIGNATURE == 11

\* ---------------------------------------------------------------- SuiClient
\* What an operation returns: a simulated value without a transaction, the
\* receipt of an executed transaction, a mock value after a failed one; "throw"
\* stands for an exception leaving the operation.
Simulated(certId) == [attempted |-> FALSE, outcome |-> "simulated", certificateId |-> certId]
Receipt(certId) == [attempted |-> TRUE, outcome |-> "receipt", certificateId |-> certId]
Fallback(certId) == [attempted |-> TRUE, outcome |-> "fallback", certificateId |-> certId]
Thrown == [attempted |-> TRUE, outcome |-> "throw", certificateId |-> RefUndefined]

\* mintCertificate(input); objectFound: the created DatasetCertificate object is
\* among the transaction's object changes.
SuiMintCertificate(cfg, answer, objectFound) ==
    IF ~cfg.keypair THEN Simulated(RefMockCert)
    ELSE IF answer = Executed
         THEN Receipt(IF objectFound THEN RefObject ELSE RefMockDigest)
         ELSE Fallback(RefMockCert)

\* recordAccess(input)
SuiRecordAccess(cfg, certificateId, answer) ==
    LET hasUsableCert == IsValidObjectId(certificateId)
        hasAccessCap == IsValidObjectId(cfg.suiAccessRecorderCap)
        hasAccessRegistry == IsValidObjectId(cfg.suiAccessRegistry)
    IN  IF ~cfg.keypair \/ ~hasUsableCert \/ ~hasAccessCap \/ ~hasAccessRegistry
        THEN Simulated(RefUndefined)
        ELSE IF answer = Executed THEN Receipt(RefUndefined)
        ELSE Fallback(RefUndefined)

\* updateTrustScore with its catch block rethrowing the error.
SuiUpdateTrustScoreRethrows(cfg, answer) ==
    IF ~cfg.keypair \/ ~IsValidObjectId(cfg.suiOracleCap)
       \/ ~IsValidObjectId(cfg.suiTrustOracle)
    THEN Simulated(RefUndefined)
    ELSE IF answer = Executed THEN Receipt(RefUndefined)
    ELSE Thrown

\* updateTrustScore(input)
SuiUpdateTrustScore(cfg, answer) ==
    LET hasOracleCap == IsValidObjectId(cfg.suiOracleCap)
        hasTrustOracle == IsValidObjectId(cfg.suiTrustOracle)
    IN  IF ~cfg.keypair \/ ~hasOracleCap \/ ~hasTrustOracle
        THEN Simulated(RefUndefined)
        ELSE IF answer = Executed THEN Receipt(RefUndefined)
        ELSE Fallback(RefUndefined)

\* updateTrustScoreWithNautilus(input)
SuiUpdateTrustScoreWithNautilus(cfg, answer) ==
    LET hasOracleCap == IsValidObjectId(cfg.suiOracleCap)
        hasTrustOracle == IsValidObjectId(cfg.suiTrustOracle)
        hasVerifier == IsValidObjectId(cfg.suiNautilusVerifier)
    IN  IF ~cfg.keypair \/ ~hasOracleCap \/ ~hasTrustOracle \/ ~hasVerifier
        THEN Simulated(RefUndefined)
        ELSE IF answer = Executed THEN Receipt(RefUndefined)
        ELSE Fallback(RefUndefined)

\* fileClaim(input)
SuiFileClaim(cfg, answer) ==
    IF ~cfg.keypair THEN Simulated(RefUndefined)
    ELSE IF answer = Executed THEN Receipt(RefUndefined)
    ELSE Fallback(RefUndefined)

\* The ledger objects an operation hands to its moveCall with tx.object(...).
PassedObjects(op, cfg, certificateId) ==
    CASE op = "mintCertificate" -> {}
      [] op = "recordAccess" ->
            {cfg.suiAccessRecorderCap, cfg.suiAccessRegistry, certificateId}
      [] op = "updateTrustScore" -> {cfg.suiOracleCap, cfg.suiTrustOracle}
      [] op = "updateTrustScoreWithNautilus" ->
            {cfg.suiOracleCap, cfg.suiTrustOracle, cfg.suiNautilusVerifier}
      [] op = "fileClaim" -> {cfg.suiClaimRegistry}
      [] OTHER -> {}

NoCall ==
    [op |-> "none", certificateId |-> RefUndefined, answer |-> Executed,
     result |-> Simulated(RefUndefined)]

\* ------------------------------------- ledger: trust oracle, enclave verifier
Datasets == {"d1", "d2"}

\* The key pair of the enclave; register_nautilus_public_key stores its public key.
EnclaveKey == "k_enclave"

\* init_nautilus_verifier(expected_pcrs): the NautilusVerifier it shares, with
\* no enclave key and no attestation yet.
NoVerifierKey(expected_pcrs) ==
    [enclave_public_key |-> "none", expected_pcrs |-> expected_pcrs,
     last_attestation |-> "none"]

NoOracleScore ==
    [present |-> FALSE, score |-> 0, provenance_score |-> 0, integrity_score |-> 0,
     audit_score |-> 0, usage_score |-> 0, verified_by_nautilus |-> FALSE]

\* bcs::to_bytes(&IntentEnvelope { intent, timestamp_ms, data }): the bytes are
\* equal exactly when the fields are.  Of the fields, the verdict and the two
\* digests are kept; blob_id, blob_size, walrus_gateway and timestamp_ms travel
\* from the enclave's body to the transaction unchanged.
IntentMessage(verified, expected_sha256, computed_sha256) ==
    [intent |-> "process_data", verified |-> verified,
     expected_sha256 |-> expected_sha256, computed_sha256 |-> computed_sha256]

\* ed25519::ed25519_verify(&signature, pk, &message_bytes)
ed25519_verify(signature, pk, message) ==
    signature.key = pk /\ signature.message = message

\* upsert_trust_score that leaves a dataset's earlier record in place.
upsert_trust_score_keeps_first(oracle, dataset_id, provenance_score, integrity_score, audit_score, usage_score, verified_by_nautilus) ==
    IF oracle[dataset_id].present THEN oracle
    ELSE [oracle EXCEPT ![dataset_id] =
             [present |-> TRUE,
              score |-> provenance_score + integrity_score + audit_score + usage_score,
              provenance_score |-> provenance_score,
              integrity_score |-> integrity_score,
              audit_score |-> audit_score, usage_score |-> usage_score,
              verified_by_nautilus |-> verified_by_nautilus]]

\* upsert_trust_score(oracle, dataset_id, ...): remove-then-add, or add
upsert_trust_score(oracle, dataset_id, provenance_score, integrity_score, audit_score, usage_score, verified_by_nautilus) ==
    [oracle EXCEPT ![dataset_id] =
        [present |-> TRUE,
         score |-> provenance_score + integrity_score + audit_score + usage_score,
         provenance_score |-> provenance_score,
         integrity_score |-> integrity_score,
         audit_score |-> audit_score,
         usage_score |-> usage_score,
         verified_by_nautilus |-> verified_by_nautilus]]

\* update_trust_score_with_nautilus(cap, oracle, verifier, ...): the answer and
\* the oracle table after it.
update_trust_score_with_nautilus(oracle, ver, dataset_id, provenance_score, integrity_score, audit_score, usage_score, verified, expected_sha256, computed_sha256, signature) ==
    IF ver.enclave_public_key = "none"
    THEN [answer |-> Abort(ENAUTILUS_NOT_INITIALIZED), oracle |-> oracle]
    ELSE IF ~ed25519_verify(signature, ver.enclave_public_key,
                           IntentMessage(verified, expected_sha256, computed_sha256))
    THEN [answer |-> Abort(ENAUTILUS_INVALID_SIGNATURE), oracle |-> oracle]
    ELSE [answer |-> Executed,
          oracle |-> upsert_trust_score(oracle, dataset_id, provenance_score,
                                      integrity_score, audit_score, usage_score, TRUE)]

\* ------------------------------------ ledger: certificate and access registry
STATUS_CERTIFIED == 1
STATUS_DISPUTED == 2

NoCertificate == [minted |-> FALSE, min_stake |-> 0, status |-> 0]

\* mint_certificate(..., min_stake): the certificate object it creates
mint_certificate(min_stake) ==
    [minted |-> TRUE, min_stake |-> min_stake, status |-> STATUS_CERTIFIED]

\* record_access with the stake assertion left out.
record_access_any_stake(registry, events, cert, purpose, stake_amount) ==
    IF ~(cert.status = STATUS_CERTIFIED)
    THEN [answer |-> Abort(0), registry |-> registry, events |-> events]
    ELSE [answer |-> Executed,
          registry |->
             [records |-> Append(registry.records,
                                 [id |-> registry.counter, purpose |-> purpose,
                                  stake_amount |-> stake_amount]),
              counter |-> registry.counter + 1],
          events |-> Append(events, [purpose |-> purpose,
                                     stake_amount |-> stake_amount])]

\* record_access(cap, registry, certificate, purpose, stake_amount): the answer,
\* the registry and the emitted events after it.
record_access(registry, events, cert, purpose, stake_amount) ==
    IF ~(cert.status = STATUS_CERTIFIED)
    THEN [answer |-> Abort(0), registry |-> registry, events |-> events]
    ELSE IF ~(stake_amount >= cert.min_stake)
    THEN [answer |-> Abort(1), registry |-> registry, events |-> events]
    ELSE [answer |-> Executed,
          registry |->
             [records |-> Append(registry.records,
                                 [id |-> registry.counter, purpose |-> purpose,
                                  stake_amount |-> stake_amount]),
              counter |-> registry.counter + 1],
          events |-> Append(events, [purpose |-> purpose,
                                     stake_amount |-> stake_amount])]

NoLedgerCall ==
    [seq |-> 0, stake_amount |-> 0, min_stake |-> 0, status |-> 0,
     answer |-> Executed,
     registryBefore |-> [records |-> <<>>, counter |-> 0],
     eventsBefore |-> <<>>]

\* --------------------------------------------------- access gate (off-chain)
\* An optional number of a request or a policy: Omitted stands for undefined.
Omitted == -1
OptionalStakes == {Omitted} \cup 0..MaxStake
\* `v ?? 0`
OrZero(v) == IF v = Omitted THEN 0 ELSE v

AccessTypes == {"public", "token_gated", "stake_gated"}

\* registerDataset and upsertDataset: the row written for a dataset registered
\* with accessPolicy {type, minStake} whose certificate mintCertificate returned.
RegisteredRow(type, minStake, minted) ==
    [accessType |-> type, minStakeAmount |-> OrZero(minStake),
     certificateId |-> minted.certificateId]

\* toDatasetRecord: the accessPolicy of the record getDataset returns; the row
\* has no column for allowedTokens.
ToAccessPolicy(row) ==
    [type |-> row.accessType, minStake |-> row.minStakeAmount,
     allowedTokens |-> {}]

\* The stake condition of recordAccess with the comparison off by one.
StakeGateRejectsOffByOne(policy, stakeAmount) ==
    /\ policy.type = "stake_gated"
    /\ OrZero(stakeAmount) + 1 < OrZero(policy.minStake)

\* recordAccess, first condition: 'Insufficient WAL stake for access'
StakeGateRejects(policy, stakeAmount) ==
    /\ policy.type = "stake_gated"
    /\ OrZero(stakeAmount) < OrZero(policy.minStake)

\* recordAccess, second condition: 'Token-gated access denied'
TokenGateRejects(policy, tokenHoldings) ==
    /\ policy.type = "token_gated"
    /\ {token \in tokenHoldings : token \in policy.allowedTokens} = {}

\* memoryStore.appendTimeline(datasetId, event)
AppendTimeline(store, event) ==
    IF ~store.inStore THEN store
    ELSE [store EXCEPT !.timeline = Append(store.timeline, event)]

NoAccess ==
    [seq |-> 0, stakeAmount |-> Omitted, end |-> "none", suiInvoked |-> FALSE,
     publisher |-> "none", downloadUrl |-> FALSE,
     timelineBefore |-> <<>>, certificateThen |-> NoCertificate]

\* --------------------------------------------------------- blockchain indexer
Loops == 1..MaxLoops

\* queryEvents({ query, limit: 50, order: 'ascending' })
QueryLimit == 50

Min(a, b) == IF a <= b THEN a ELSE b

\* The page queryEvents returns: the first QueryLimit events, as positions in
\* chainEvents; no cursor is passed.
QueryEvents(events) == [i \in 1..Min(Len(events), QueryLimit) |-> i]

NoLoop == [pc |-> "idle", queue |-> <<>>]

\* `for (const event of events.data) await this.processAccessEvent(event)`:
\* the pass starts on the first event of the page, or is over at once.
BeginPass(page) ==
    IF page = <<>> THEN [pc |-> "pending", queue |-> <<>>]
    ELSE [pc |-> "findDataset", queue |-> page]

\* processAccessEvent returns (or its catch has logged): on to the next event of
\* the page; after the last one pollEvents is due, at once after a backfill
\* and after pollInterval otherwise.
EndEvent(loop) == BeginPass(Tail(loop.queue))

NoDatasetRow == [exists |-> FALSE, downloads |-> 0, totalRevenue |-> 0,
                 description |-> ""]

\* prisma.accessRecord.findFirst({ where: { txHash } })
FindAccessRecord(rows, txHash) ==
    \E i \in DOMAIN rows : rows[i].txHash = txHash

RowsOf(rows, txHash) == {i \in DOMAIN rows : rows[i].txHash = txHash}

\* ------------------------------------------------ enclave attestor (off-chain)
\* What the enclave's /process_data can answer to a request for expectedSha256:
\* no usable response, or a body whose signature was made by the enclave's key
\* over the envelope it sends ("good"), by the enclave's key over an envelope
\* with the verified flag flipped ("tampered"), or by another key ("forged").
EnclaveFailures == {"unreachable", "timeout", "non_2xx", "unparsable_body"}

EnclaveBody(expectedSha256, computedSha256, verified, sig) ==
    [kind |-> "ok", verified |-> verified, expected_sha256 |-> expectedSha256,
     computed_sha256 |-> computedSha256,
     signature |->
        CASE sig = "good" ->
                [key |-> EnclaveKey,
                 message |-> IntentMessage(verified, expectedSha256, computedSha256)]
          [] sig = "tampered" ->
                [key |-> EnclaveKey,
                 message |-> IntentMessage(~verified, expectedSha256, computedSha256)]
          [] OTHER ->
                [key |-> "k_other",
                 message |-> IntentMessage(verified, expectedSha256, computedSha256)]]

EnclaveReplies(expectedSha256) ==
    {[kind |-> k, verified |-> FALSE, expected_sha256 |-> "", computed_sha256 |-> "",
      signature |-> NoSignature] : k \in EnclaveFailures}
    \cup {EnclaveBody(expectedSha256, c, v, sig) :
            c \in FetchedHashes, v \in BOOLEAN, sig \in {"good", "tampered", "forged"}}

\* callNautilusServer without its test of response.ok: the body of a non-success
\* response is read as a proof.
CallNautilusServerAnyStatus(reply) ==
    IF reply.kind \notin {"ok", "non_2xx"} THEN [threw |-> TRUE, proof |-> NoProof]
    ELSE [threw |-> FALSE,
          proof |-> [present |-> TRUE, verified |-> reply.verified,
                     expectedSha256 |-> reply.expected_sha256,
                     computedSha256 |-> reply.computed_sha256,
                     signature |-> reply.signature]]

\* callNautilusServer(input): the proof parsed from the body, or the error rethrown.
CallNautilusServer(reply) ==
    IF reply.kind # "ok" THEN [threw |-> TRUE, proof |-> NoProof]
    ELSE [threw |-> FALSE,
          proof |-> [present |-> TRUE, verified |-> reply.verified,
                     expectedSha256 |-> reply.expected_sha256,
                     computedSha256 |-> reply.computed_sha256,
                     signature |-> reply.signature]]

\* finalizeNautilusVerification: the integrity check built from the proof, and the
\* TrustScore calculated from it, carrying the proof.
ProofIntegrityCheck(proof) ==
    [present |-> TRUE, raised |-> FALSE, fetchFailed |-> FALSE,
     sha256Match |-> proof.computedSha256 = proof.expectedSha256,
     poseidonMatch |-> proof.verified,
     integrityRootValid |-> proof.verified]

ProofTrustScore(d, proof) ==
    [CalculateTrustScore(d, proof.verified, ProofIntegrityCheck(proof))
        EXCEPT !.nautilusProof = proof]

\* publishTrustScoreWithNautilus(trustScore, proof): returns the publisher's
\* value, rethrows what the publisher throws.
PublishTrustScoreWithNautilus(cfg, answer) ==
    LET res == SuiUpdateTrustScoreWithNautilus(cfg, answer)
    IN  [threw |-> res.outcome = "throw", result |-> res]

NoRun ==
    [status |-> "none", reply |-> "not_called", proof |-> NoProof, answer |-> Executed,
     publisher |-> "none", trustScore |-> NoTrust]

\* ------------------------------------------------------------------ claims
NoClaimCall ==
    [filed |-> <<>>, end |-> "none", severity |-> "none", code |-> -1,
     publisher |-> "none", returned |-> <<>>]

NoLedgerOp ==
    [seq |-> 0, op |-> "none", dataset_id |-> "none", args |-> <<>>, flag |-> FALSE,
     answer |-> Executed, signer |-> "none", updated |-> {},
     oracleBefore |-> [d \in Datasets |-> NoOracleScore],
     claimsBefore |-> [records |-> <<>>, counter |-> 0],
     accessBefore |-> [records |-> <<>>, counter |-> 0]]

\* ------------------------------------------------------------ registration
\* The registerDataset calls, told apart by their order of arrival: as many
\* as there are dataset ids for them to draw.
RegisterCalls == 1..Cardinality(Datasets)

\* The ids createUploadSession hands out (session-<nanoid>, never twice the
\* same), and one id that no session ever had.
SessionIds == {"s1", "s2"}
UnknownSession == "s_unknown"

\* registerDataset's dataset-<nanoid>: a fresh id for every call.
DatasetIdOf(c) == IF c = 1 THEN "d1" ELSE "d2"

NoRegistration ==
    [pc |-> "idle", sessionId |-> "none", datasetId |-> "none",
     minted |-> FALSE, wrote |-> FALSE]

\* ------------------------------------------------------- suspension points
\* The operations that await the network.
AsyncOperations == {"verifyDataIntegrity", "requestNautilusVerification", "pollEvents"}

NotStarted == [pc |-> "idle", call |-> "none", timer |-> FALSE, end |-> "none", runs |-> 0]

\* ------------------------------------------- initial values of idle subsystems
\* No upload session created, no registerDataset call made.
RegisterIdle ==
    /\ uploadSessions = {}
    /\ registrations = [c \in RegisterCalls |-> NoRegistration]

\* No operation has a network call in flight.
SuspensionIdle == pending = [op \in AsyncOperations |-> NotStarted]

ClaimsIdle ==
    /\ dbClaims = <<>>
    /\ memClaims = [inStore |-> FALSE, claims |-> <<>>]
    /\ claimRegistry = [records |-> <<>>, counter |-> 0]
    /\ claimRaised = <<>>
    /\ claimLog = NoClaimCall
    /\ indexedSeverity = <<>>

ScoreIdle ==
    /\ dataset = [timelineEvents |-> 0, claims |-> <<>>, downloads |-> 0,
                  sha256 |-> "", poseidon |-> "", integrityRoot |-> ""]
    /\ integrity = NoIntegrity
    /\ trust = NoTrust

PublisherIdle ==
    /\ config = [nautilusServerUrl |-> "",
                 keypair |-> FALSE,
                 suiClaimRegistry |-> RefPlaceholder,
                 suiAccessRegistry |-> RefPlaceholder,
                 suiAccessRecorderCap |-> RefPlaceholder,
                 suiTrustOracle |-> RefPlaceholder,
                 suiOracleCap |-> RefPlaceholder,
                 suiNautilusVerifier |-> RefPlaceholder]
    /\ pubCall = NoCall

OracleIdle ==
    /\ verifier = NoVerifierKey(<<>>)
    /\ trustOracle = [d \in Datasets |-> NoOracleScore]

NautilusIdle ==
    /\ dbTrust = NoTrust
    /\ dbTrustHistory = <<>>
    /\ memTrust = [inStore |-> FALSE, trust |-> NoTrust]
    /\ verificationCache = [present |-> FALSE, proof |-> NoProof, trustScore |-> NoTrust]
    /\ nautilusRun = NoRun

AccessIdle ==
    /\ certificate = NoCertificate
    /\ accessRegistry = [records |-> <<>>, counter |-> 0]
    /\ accessGranted = <<>>
    /\ ledgerLog = NoLedgerCall
    /\ datasetRow = RegisteredRow("public", Omitted, Simulated(RefMockCert))
    /\ memTimeline = [inStore |-> FALSE, timeline |-> <<>>]
    /\ accessLog = NoAccess

IndexerIdle ==
    /\ chainEvents = <<>>
    /\ isRunning = FALSE
    /\ loops = [l \in Loops |-> NoLoop]
    /\ dbDatasets = [d \in Datasets |-> NoDatasetRow]
    /\ dbAccessRecords = <<>>

\* ------------------------------------------------- specification SpecScore
InitScore ==
    /\ dataset \in [timelineEvents : 0..MaxTimeline,
                    claims : SeqsUpTo(Severities, MaxClaims),
                    downloads : DownloadSamples,
                    sha256 : RecordedHashes,
                    poseidon : RecordedHashes,
                    integrityRoot : RecordedRoots]
    /\ integrity = NoIntegrity
    /\ trust = NoTrust
    /\ PublisherIdle
    /\ OracleIdle
    /\ NautilusIdle
    /\ AccessIdle
    /\ IndexerIdle
    /\ ClaimsIdle
    /\ ledgerCall = NoLedgerOp
    /\ RegisterIdle
    /\ SuspensionIdle

\* calculateAndPublishTrustScore with performWalrusVerification: the verifier runs.
VerifyIntegrityStep ==
    /\ ~integrity.present
    /\ \E fetch \in FetchOutcomes :
       \E sha \in DigestsAfter(fetch), pos \in DigestsAfter(fetch),
          probes \in ProbesAfter(fetch) :
          integrity' = VerifyDataIntegrity(dataset, fetch, sha, pos, probes)
    /\ UNCHANGED <<dataset, trust>>
    /\ UNCHANGED outsideScore

\* The scorer runs on the bundle, with the verifier's result when there is one.
ScoreStep ==
    /\ ~trust.computed
    /\ \E verified \in BOOLEAN :
          trust' = CalculateTrustScore(dataset, verified, integrity)
    /\ UNCHANGED <<dataset, integrity>>
    /\ UNCHANGED outsideScore

NextScore == VerifyIntegrityStep \/ ScoreStep

SpecScore == InitScore /\ [][NextScore]_vars

\* --------------------------------------------- specification SpecPublisher
\* The process starts with any configuration; every call of a SuiClient
\* operation is answered by the ledger in one of the ways its entry function
\* and the transport allow.
InitPublisher ==
    /\ config \in Configs
    /\ pubCall = NoCall
    /\ ScoreIdle
    /\ OracleIdle
    /\ NautilusIdle
    /\ AccessIdle
    /\ IndexerIdle
    /\ ClaimsIdle
    /\ ledgerCall = NoLedgerOp
    /\ RegisterIdle
    /\ SuspensionIdle

PublisherMintCertificate ==
    /\ \E answer \in {Executed} \cup TransportFaults, objectFound \in BOOLEAN :
          pubCall' = [op |-> "mintCertificate", certificateId |-> RefUndefined,
                      answer |-> answer,
                      result |-> SuiMintCertificate(config, answer, objectFound)]
    /\ UNCHANGED <<config, outsidePublisher>>

PublisherRecordAccess ==
    /\ \E certificateId \in CertificateIds,
          answer \in {Executed, Abort(0), Abort(1)} \cup TransportFaults :
          pubCall' = [op |-> "recordAccess", certificateId |-> certificateId,
                      answer |-> answer,
                      result |-> SuiRecordAccess(config, certificateId, answer)]
    /\ UNCHANGED <<config, outsidePublisher>>

PublisherUpdateTrustScore ==
    /\ \E answer \in {Executed} \cup TransportFaults :
          pubCall' = [op |-> "updateTrustScore", certificateId |-> RefUndefined,
                      answer |-> answer,
                      result |-> SuiUpdateTrustScore(config, answer)]
    /\ UNCHANGED <<config, outsidePublisher>>

PublisherUpdateTrustScoreWithNautilus ==
    /\ \E answer \in {Executed, Abort(ENAUTILUS_NOT_INITIALIZED),
                      Abort(ENAUTILUS_INVALID_SIGNATURE)} \cup TransportFaults :
          pubCall' = [op |-> "updateTrustScoreWithNautilus",
                      certificateId |-> RefUndefined, answer |-> answer,
                      result |-> SuiUpdateTrustScoreWithNautilus(config, answer)]
    /\ UNCHANGED <<config, outsidePublisher>>

PublisherFileClaim ==
    /\ \E answer \in {Executed} \cup TransportFaults :
          pubCall' = [op |-> "fileClaim", certificateId |-> RefUndefined,
                      answer |-> answer,
                      result |-> SuiFileClaim(config, answer)]
    /\ UNCHANGED <<config, outsidePublisher>>

NextPublisher ==
    \/ PublisherMintCertificate
    \/ PublisherRecordAccess
    \/ PublisherUpdateTrustScore
    \/ PublisherUpdateTrustScoreWithNautilus
    \/ PublisherFileClaim

SpecPublisher == InitPublisher /\ [][NextPublisher]_vars

\* C8: a SuiClient operation called without a signing key, or handing the ledger
\* an object reference that is not a valid object id, returns a simulated result
\* and attempts no transaction.
C8_ShortCircuitOnMissingReference ==
    (/\ pubCall.op # "none"
     /\ \/ ~config.keypair
        \/ \E ref \in PassedObjects(pubCall.op, config, pubCall.certificateId) :
              ~IsValidObjectId(ref))
    => (~pubCall.result.attempted /\ pubCall.result.outcome = "simulated")

\* C9: no SuiClient operation lets a failure of building or submitting its
\* transaction escape: every attempted call whose transaction did not execute
\* returns a mock value.
C9_SubmissionErrorsBecomeMockReceipts ==
    pubCall.op # "none" =>
        /\ pubCall.result.outcome # "throw"
        /\ (pubCall.result.attempted /\ pubCall.answer # Executed)
              => pubCall.result.outcome = "fallback"

\* updateTrustScore attempted its transaction and the submission failed.
C9_Witness ==
    /\ pubCall.op = "updateTrustScore"
    /\ pubCall.result.attempted
    /\ pubCall.answer = Fault("insufficient_funds")
    /\ pubCall.result.outcome = "fallback"

\* ---------------------------------------------- specification SpecNautilus
\* One dataset, "d1", is registered: `dataset` is the record getDataset returns
\* for it.  The ledger's verifier starts without an enclave key.
NautilusDataset == "d1"

InitNautilus ==
    /\ config \in [nautilusServerUrl : {"", "http://enclave"},
                   keypair : BOOLEAN,
                   suiClaimRegistry : {RefPlaceholder},
                   suiAccessRegistry : {RefPlaceholder},
                   suiAccessRecorderCap : {RefPlaceholder},
                   suiTrustOracle : ConfigRefs,
                   suiOracleCap : ConfigRefs,
                   suiNautilusVerifier : ConfigRefs]
    /\ dataset \in [timelineEvents : {0, 1}, claims : {<<>>}, downloads : {0},
                    sha256 : RecordedHashes, poseidon : {"h1"},
                    integrityRoot : {"r1"}]
    /\ integrity = NoIntegrity
    /\ trust = NoTrust
    /\ pubCall = NoCall
    /\ OracleIdle
    /\ dbTrust = NoTrust
    /\ dbTrustHistory = <<>>
    /\ memTrust \in [inStore : BOOLEAN, trust : {NoTrust}]
    /\ verificationCache = [present |-> FALSE, proof |-> NoProof, trustScore |-> NoTrust]
    /\ nautilusRun = NoRun
    /\ AccessIdle
    /\ IndexerIdle
    /\ ClaimsIdle
    /\ ledgerCall = NoLedgerOp
    /\ RegisterIdle
    /\ SuspensionIdle

\* register_nautilus_public_key(verifier, public_key) by the verifier's admin
RegisterNautilusPublicKey ==
    /\ verifier.enclave_public_key = "none"
    /\ verifier' = [verifier EXCEPT !.enclave_public_key = EnclaveKey]
    /\ UNCHANGED <<dataset, config, trustOracle, nautVars, outsideNautilus>>

\* requestNautilusVerification(datasetId, blobId?), the whole handler:
\* callNautilusServer, finalizeNautilusVerification (score, publish, save,
\* memory store, cache).
RequestNautilusVerification ==
    /\ Len(dbTrustHistory) < MaxHistory
    /\ \E targetBlob \in {"", "blob1"}, reply \in EnclaveReplies(dataset.sha256),
          transport \in {Executed, Fault("network_fault")} :
        LET called == CallNautilusServer(reply)
            proof == called.proof
            trustScore == ProofTrustScore(dataset, proof)
            ledger == update_trust_score_with_nautilus(
                          trustOracle, verifier, NautilusDataset,
                          trustScore.provenanceScore, trustScore.integrityScore,
                          trustScore.auditScore, trustScore.usageScore,
                          proof.verified, proof.expectedSha256,
                          proof.computedSha256, proof.signature)
            answer == IF transport # Executed THEN transport ELSE ledger.answer
            published == PublishTrustScoreWithNautilus(config, answer)
            asked == config.nautilusServerUrl # "" /\ targetBlob # ""
                     /\ dataset.sha256 # ""
            ended(status, pf, ts, pub) ==
                [status |-> status,
                 reply |-> IF asked THEN reply.kind ELSE "not_called",
                 proof |-> pf, answer |-> answer,
                 publisher |-> pub, trustScore |-> ts]
        IN  IF config.nautilusServerUrl = ""
            THEN /\ nautilusRun' = ended("skipped", NoProof, NoTrust, "none")
                 /\ UNCHANGED <<trustOracle, dbTrust, dbTrustHistory, memTrust,
                                verificationCache>>
            ELSE IF targetBlob = "" \/ dataset.sha256 = "" \/ called.threw
            THEN /\ nautilusRun' = ended("threw", NoProof, NoTrust, "none")
                 /\ UNCHANGED <<trustOracle, dbTrust, dbTrustHistory, memTrust,
                                verificationCache>>
            ELSE IF published.threw
            THEN /\ nautilusRun' = ended("threw", proof, NoTrust, "throw")
                 /\ UNCHANGED <<trustOracle, dbTrust, dbTrustHistory, memTrust,
                                verificationCache>>
            ELSE /\ trustOracle' = IF published.result.outcome = "receipt"
                                   THEN ledger.oracle ELSE trustOracle
                 /\ dbTrust' = trustScore
                 /\ dbTrustHistory' = Append(dbTrustHistory, trustScore)
                 /\ memTrust' = IF memTrust.inStore
                                THEN [memTrust EXCEPT !.trust = trustScore]
                                ELSE memTrust
                 /\ verificationCache' =
                        [present |-> TRUE, proof |-> proof, trustScore |-> trustScore]
                 /\ nautilusRun' = ended("returned", proof, trustScore,
                                         published.result.outcome)
    /\ UNCHANGED <<dataset, config, verifier, outsideNautilus>>

NextNautilus == RegisterNautilusPublicKey \/ RequestNautilusVerification

SpecNautilus == InitNautilus /\ [][NextNautilus]_vars

\* Whether a proof's signature verifies against the enclave's public key over
\* the envelope rebuilt from the proof's own fields.
ProofVerifies(proof) ==
    ed25519_verify(proof.signature, EnclaveKey,
                  IntentMessage(proof.verified, proof.expectedSha256,
                                proof.computedSha256))

CarriesBadProof(ts) == ts.nautilusProof.present /\ ~ProofVerifies(ts.nautilusProof)

\* C2: no TrustScore carrying a proof whose signature does not verify against the
\* enclave's public key is persisted, kept in the memory store or cached, and the
\* dataset's persisted verifiedByNautilus flag is not set by such a run.
C2_MisSignedProofNeverMerged ==
    /\ ~CarriesBadProof(dbTrust)
    /\ \A i \in DOMAIN dbTrustHistory : ~CarriesBadProof(dbTrustHistory[i])
    /\ ~CarriesBadProof(memTrust.trust)
    /\ ~(verificationCache.present /\ ~ProofVerifies(verificationCache.proof))
    /\ (nautilusRun.proof.present /\ ~ProofVerifies(nautilusRun.proof))
          => ~(nautilusRun.status = "returned" /\ dbTrust.verifiedByNautilus)

\* C7: when the ledger rejects update_trust_score_with_nautilus for an invalid
\* signature or an unregistered enclave key, updateTrustScoreWithNautilus and
\* publishTrustScoreWithNautilus end with an error, not with a mock transaction id.
C7_SecurityFailureSurfaces ==
    (nautilusRun.answer \in {Abort(ENAUTILUS_INVALID_SIGNATURE),
                             Abort(ENAUTILUS_NOT_INITIALIZED)}
     /\ nautilusRun.publisher # "none")
    => (nautilusRun.publisher = "throw" /\ nautilusRun.status = "threw")

\* C3: every TrustScore calculateTrustScore returns has score equal to the sum of
\* its four sub-scores, each sub-score within 0..25 and the score within 0..100.
C3_ScoreIsBoundedSum ==
    trust.computed =>
        /\ trust.score = trust.provenanceScore + trust.integrityScore
                          + trust.auditScore + trust.usageScore
        /\ trust.provenanceScore \in 0..25
        /\ trust.integrityScore \in 0..25
        /\ trust.auditScore \in 0..25
        /\ trust.usageScore \in 0..25
        /\ trust.score \in 0..100

\* A score computed from an explicit verification result for a bundle whose
\* deductions exceed 25 (three critical claims), so that the floor acts.
C3_Witness ==
    /\ trust.computed
    /\ trust.integrityCheck.present
    /\ CountSeverity(dataset.claims, "critical") >= 3
    /\ trust.auditScore = 0
    /\ trust.usageScore = 25

\* C10: when the blob fetch fails, verifyDataIntegrity returns (raises nothing) a
\* result whose three checks are all false, and a TrustScore calculated from that
\* result has integrityScore 0 and a score equal to the sum of its sub-scores.
C10_FetchFailureIsData ==
    (integrity.present /\ integrity.fetchFailed) =>
        /\ ~integrity.raised
        /\ ~integrity.sha256Match
        /\ ~integrity.poseidonMatch
        /\ ~integrity.integrityRootValid
        /\ (trust.computed /\ trust.integrityCheck = integrity) =>
               /\ trust.integrityScore = 0
               /\ trust.score = trust.provenanceScore + trust.integrityScore
                                 + trust.auditScore + trust.usageScore

\* A failed fetch for a dataset with all three integrity fields recorded, scored.
C10_Witness ==
    /\ integrity.present /\ integrity.fetchFailed
    /\ dataset.sha256 # "" /\ dataset.poseidon # "" /\ dataset.integrityRoot # ""
    /\ trust.computed /\ trust.integrityCheck = integrity
    /\ trust.integrityScore = 0

\* The deduction of one claim, and of a claim list, by direct recursion.
DeductionOf(sev) ==
    CASE sev = "critical" -> 10
      [] sev = "warning" -> 5
      [] OTHER -> 2

RECURSIVE Deductions(_)
Deductions(claims) ==
    IF claims = <<>> THEN 0
    ELSE DeductionOf(Head(claims)) + Deductions(Tail(claims))

TenCritical == [i \in 1..10 |-> "critical"]

\* C11: the audit sub-score of a claim list is max(0, 25 - 10*critical -
\* 5*warning - 2*info), is never negative, and does not grow when one more claim
\* of any severity is added; ten critical claims give 0.
C11_AuditMonotoneWithFloor ==
    LET C == dataset.claims
        reference == IF 25 - Deductions(C) < 0 THEN 0 ELSE 25 - Deductions(C)
    IN  /\ AuditScore(C) = reference
        /\ AuditScore(C) >= 0
        /\ \A c \in Severities : AuditScore(Append(C, c)) <= AuditScore(C)
        /\ AuditScore(TenCritical) = 0
        /\ trust.computed => trust.auditScore = reference

\* The scorer has run on a bundle with one critical and two warning claims.
C11_Witness ==
    /\ trust.computed
    /\ CountSeverity(dataset.claims, "critical") = 1
    /\ CountSeverity(dataset.claims, "warning") = 2
    /\ Len(dataset.claims) = 3
    /\ trust.auditScore = 5

\* The reference tables, each row read as the first that applies.
TableProvenance(n) ==
    CASE n = 0 -> 0
      [] n = 1 -> 10
      [] n = 2 -> 15
      [] n \in 3..4 -> 20
      [] OTHER -> 25

TableUsage(n) ==
    CASE n = 0 -> 0
      [] n \in 1..4 -> 5
      [] n \in 5..19 -> 10
      [] n \in 20..49 -> 15
      [] n \in 50..99 -> 20
      [] OTHER -> 25

TableIntegrity(primary, secondary, root) ==
    CASE primary /\ secondary /\ root -> 25
      [] primary /\ secondary -> 20
      [] primary -> 15
      [] OTHER -> 0

InitAccess ==
    /\ config \in [nautilusServerUrl : {""},
                   keypair : BOOLEAN,
                   suiClaimRegistry : {RefPlaceholder},
                   suiAccessRegistry : ConfigRefs,
                   suiAccessRecorderCap : ConfigRefs,
                   suiTrustOracle : {RefPlaceholder},
                   suiOracleCap : {RefPlaceholder},
                   suiNautilusVerifier : {RefPlaceholder}]
    /\ \E type \in AccessTypes, minStake \in OptionalStakes, keypairThen \in BOOLEAN,
          answer \in {Executed, Fault("network_fault")}, objectFound \in BOOLEAN :
          LET minted == SuiMintCertificate([config EXCEPT !.keypair = keypairThen],
                                           answer, objectFound)
          IN  /\ datasetRow = RegisteredRow(type, minStake, minted)
              /\ certificate = IF minted.outcome = "receipt"
                               THEN mint_certificate(OrZero(minStake))
                               ELSE NoCertificate
    /\ accessRegistry = [records |-> <<>>, counter |-> 0]
    /\ accessGranted = <<>>
    /\ ledgerLog = NoLedgerCall
    /\ memTimeline \in {[inStore |-> FALSE, timeline |-> <<>>],
                        [inStore |-> TRUE,
                         timeline |-> <<"upload", "certificate_minted">>]}
    /\ accessLog = NoAccess
    /\ ScoreIdle
    /\ pubCall = NoCall
    /\ OracleIdle
    /\ NautilusIdle
    /\ IndexerIdle
    /\ ClaimsIdle
    /\ ledgerCall = NoLedgerOp
    /\ RegisterIdle
    /\ SuspensionIdle

\* mark_disputed(certificate), by the certificate's owner
MarkDisputed ==
    /\ certificate.minted
    /\ certificate.status # STATUS_DISPUTED
    /\ certificate' = [certificate EXCEPT !.status = STATUS_DISPUTED]
    /\ UNCHANGED <<config, accessRegistry, accessGranted, ledgerLog, datasetRow,
                   memTimeline, accessLog, outsideAccess>>

\* restore_certificate(certificate), by the certificate's owner
RestoreCertificate ==
    /\ certificate.minted
    /\ certificate.status # STATUS_CERTIFIED
    /\ certificate' = [certificate EXCEPT !.status = STATUS_CERTIFIED]
    /\ UNCHANGED <<config, accessRegistry, accessGranted, ledgerLog, datasetRow,
                   memTimeline, accessLog, outsideAccess>>

\* datasetService.recordAccess(input), the whole handler: the two gates,
\* suiClient.recordAccess (and the ledger's record_access when the transaction
\* is submitted and arrives), memoryStore.appendTimeline, the download URL.
\* The request's purpose is its sequence number.
RequestAccess ==
    /\ accessLog.seq < MaxAccess
    /\ \E stakeAmount \in OptionalStakes, tokenHoldings \in SUBSET {"t1"},
          transport \in {Executed, Fault("network_fault")} :
        LET seq == accessLog.seq + 1
            policy == ToAccessPolicy(datasetRow)
            submitted == SuiRecordAccess(config, datasetRow.certificateId,
                                         Executed).attempted
            arrives == submitted /\ transport = Executed
            onLedger == record_access(accessRegistry, accessGranted, certificate,
                                      seq, OrZero(stakeAmount))
            answer == IF transport # Executed THEN transport ELSE onLedger.answer
            tx == SuiRecordAccess(config, datasetRow.certificateId, answer)
            rejected(why) ==
                [seq |-> seq, stakeAmount |-> stakeAmount, end |-> why,
                 suiInvoked |-> FALSE, publisher |-> "none",
                 downloadUrl |-> FALSE, timelineBefore |-> memTimeline.timeline,
                 certificateThen |-> certificate]
        IN  IF StakeGateRejects(policy, stakeAmount)
            THEN /\ accessLog' = rejected("insufficient_stake")
                 /\ UNCHANGED <<accessRegistry, accessGranted, ledgerLog, memTimeline>>
            ELSE IF TokenGateRejects(policy, tokenHoldings)
            THEN /\ accessLog' = rejected("token_denied")
                 /\ UNCHANGED <<accessRegistry, accessGranted, ledgerLog, memTimeline>>
            ELSE /\ accessRegistry' = IF arrives THEN onLedger.registry
                                      ELSE accessRegistry
                 /\ accessGranted' = IF arrives THEN onLedger.events
                                     ELSE accessGranted
                 /\ ledgerLog' =
                        IF arrives
                        THEN [seq |-> ledgerLog.seq + 1,
                              stake_amount |-> OrZero(stakeAmount),
                              min_stake |-> certificate.min_stake,
                              status |-> certificate.status,
                              answer |-> onLedger.answer,
                              registryBefore |-> accessRegistry,
                              eventsBefore |-> accessGranted]
                        ELSE ledgerLog
                 /\ memTimeline' = AppendTimeline(memTimeline, "access_request")
                 /\ accessLog' =
                        [seq |-> seq, stakeAmount |-> stakeAmount,
                         end |-> "admitted", suiInvoked |-> TRUE,
                         publisher |-> tx.outcome, downloadUrl |-> TRUE,
                         timelineBefore |-> memTimeline.timeline,
                         certificateThen |-> certificate]
    /\ UNCHANGED <<config, certificate, datasetRow, outsideAccess>>

NextAccess == MarkDisputed \/ RestoreCertificate \/ RequestAccess

SpecAccess == InitAccess /\ [][NextAccess]_vars

\* C4: every request recordAccess admits, for a dataset whose certificate is on
\* the ledger, satisfies the preconditions of the ledger's record_access: the
\* offered stake is at least the certificate's min_stake and the certificate is
\* certified.
C4_GateNotWeakerThanLedger ==
    (accessLog.end = "admitted" /\ accessLog.certificateThen.minted)
    => /\ OrZero(accessLog.stakeAmount) >= accessLog.certificateThen.min_stake
       /\ accessLog.certificateThen.status = STATUS_CERTIFIED

\* C5: a request to a stake-gated dataset whose stakeAmount (0 when omitted) is
\* below the dataset's minStake ends rejected, without suiClient.recordAccess
\* having been invoked, without a timeline event and without a download URL.
C5_StakeGateBeforeLedgerWrite ==
    (/\ accessLog.seq > 0
     /\ datasetRow.accessType = "stake_gated"
     /\ OrZero(accessLog.stakeAmount) < datasetRow.minStakeAmount)
    => /\ accessLog.end = "insufficient_stake"
       /\ ~accessLog.suiInvoked
       /\ accessLog.publisher = "none"
       /\ memTimeline.timeline = accessLog.timelineBefore
       /\ ~accessLog.downloadUrl

C5_Witness ==
    /\ accessLog.seq > 0
    /\ datasetRow.accessType = "stake_gated"
    /\ datasetRow.minStakeAmount = 2
    /\ accessLog.stakeAmount = 1
    /\ accessLog.end = "insufficient_stake"
    /\ memTimeline.inStore
    /\ config.keypair /\ IsValidObjectId(datasetRow.certificateId)

LedgerUnchangedByLastCall ==
    /\ accessRegistry = ledgerLog.registryBefore
    /\ accessGranted = ledgerLog.eventsBefore

LedgerGrantedByLastCall ==
    /\ ledgerLog.answer = Executed
    /\ Len(accessRegistry.records) = Len(ledgerLog.registryBefore.records) + 1
    /\ SubSeq(accessRegistry.records, 1, Len(ledgerLog.registryBefore.records))
          = ledgerLog.registryBefore.records
    /\ accessRegistry.records[Len(accessRegistry.records)].stake_amount
          = ledgerLog.stake_amount
    /\ accessRegistry.counter = ledgerLog.registryBefore.counter + 1
    /\ Len(accessGranted) = Len(ledgerLog.eventsBefore) + 1

\* C6 as stated: record_access grants (one record, counter plus one, one event)
\* when the stake suffices and the certificate is certified, and aborts with
\* code 1, changing nothing, whenever the stake is below min_stake.
C6_AbortCodeOneWheneverStakeLow ==
    ledgerLog.seq > 0 =>
        /\ (ledgerLog.stake_amount >= ledgerLog.min_stake
            /\ ledgerLog.status = STATUS_CERTIFIED) => LedgerGrantedByLastCall
        /\ ledgerLog.stake_amount < ledgerLog.min_stake
              => (ledgerLog.answer = Abort(1) /\ LedgerUnchangedByLastCall)

\* C6, amended: record_access grants (one record, counter plus one, one event)
\* when the stake suffices and the certificate is certified; when the stake is
\* below min_stake it aborts, with code 1 if the certificate is certified and
\* with code 0 if it is not, and changes nothing.
C6_LedgerStakeEnforcement ==
    ledgerLog.seq > 0 =>
        /\ (ledgerLog.stake_amount >= ledgerLog.min_stake
            /\ ledgerLog.status = STATUS_CERTIFIED) => LedgerGrantedByLastCall
        /\ ledgerLog.stake_amount < ledgerLog.min_stake
              => /\ ledgerLog.answer =
                       (IF ledgerLog.status = STATUS_CERTIFIED
                        THEN Abort(1) ELSE Abort(0))
                 /\ LedgerUnchangedByLastCall

C6_Witness ==
    /\ ledgerLog.seq > 1
    /\ ledgerLog.status = STATUS_DISPUTED
    /\ ledgerLog.stake_amount < ledgerLog.min_stake
    /\ ledgerLog.answer = Abort(0)
    /\ Len(accessRegistry.records) > 0
    /\ accessRegistry = ledgerLog.registryBefore

\* ----------------------------------------------- specification SpecIndexer
\* The projection holds the row of the registered dataset "d1"; "d2" is known
\* to the ledger only.  The server process has not called start() yet.
InitIndexer ==
    /\ chainEvents = <<>>
    /\ isRunning = FALSE
    /\ loops = [l \in Loops |-> NoLoop]
    /\ dbDatasets = [d \in Datasets |->
                        IF d = "d1"
                        THEN [exists |-> TRUE, downloads |-> 0, totalRevenue |-> 0,
                              description |-> "registered"]
                        ELSE NoDatasetRow]
    /\ dbAccessRecords = <<>>
    /\ ScoreIdle
    /\ PublisherIdle
    /\ OracleIdle
    /\ NautilusIdle
    /\ AccessIdle
    /\ ClaimsIdle
    /\ ledgerCall = NoLedgerOp
    /\ RegisterIdle
    /\ SuspensionIdle

\* The ledger executes a record_access transaction: one more AccessGranted
\* event, under the transaction's digest.
LedgerEmitsAccessGranted ==
    /\ Len(chainEvents) < MaxEvents
    /\ \E d \in Datasets, stake \in 1..MaxStake :
          chainEvents' = Append(chainEvents,
                                [txDigest |-> Len(chainEvents) + 1,
                                 dataset_id |-> d, stake_amount |-> stake])
    /\ UNCHANGED <<isRunning, loops, dbDatasets, dbAccessRecords, outsideIndexer>>

\* start(), up to its first await: returns if isRunning, else sets it and
\* enters syncHistoricalEvents.
Start ==
    /\ ~isRunning
    /\ \E l \in Loops :
          /\ loops[l].pc = "idle"
          /\ \A k \in Loops : k < l => loops[k].pc # "idle"
          /\ loops' = [loops EXCEPT ![l] = [pc |-> "backfill", queue |-> <<>>]]
    /\ isRunning' = TRUE
    /\ UNCHANGED <<chainEvents, dbDatasets, dbAccessRecords, outsideIndexer>>

\* stop()
Stop ==
    /\ isRunning
    /\ isRunning' = FALSE
    /\ UNCHANGED <<chainEvents, loops, dbDatasets, dbAccessRecords, outsideIndexer>>

\* The server process ends (kill, crash, deploy): its passes are gone, the next
\* process starts with isRunning = false; the projection stays.
ProcessExit ==
    /\ isRunning \/ \E l \in Loops : loops[l].pc # "idle"
    /\ isRunning' = FALSE
    /\ loops' = [l \in Loops |-> NoLoop]
    /\ UNCHANGED <<chainEvents, dbDatasets, dbAccessRecords, outsideIndexer>>

\* syncHistoricalEvents -> indexAccessEvents: the query answers, or throws and
\* the catch logs it.
Backfill(l) ==
    /\ loops[l].pc = "backfill"
    /\ \E answered \in BOOLEAN :
          loops' = [loops EXCEPT ![l] =
                       IF answered THEN BeginPass(QueryEvents(chainEvents))
                       ELSE BeginPass(<<>>)]
    /\ UNCHANGED <<chainEvents, isRunning, dbDatasets, dbAccessRecords, outsideIndexer>>

\* pollEvents() without its first line, the test of isRunning.
PollEventsIgnoringStop(l) ==
    /\ loops[l].pc = "pending"
    /\ \E answered \in BOOLEAN :
          loops' = [loops EXCEPT ![l] =
                       IF answered THEN BeginPass(QueryEvents(chainEvents))
                       ELSE BeginPass(<<>>)]
    /\ UNCHANGED <<chainEvents, isRunning, dbDatasets, dbAccessRecords, outsideIndexer>>

\* pollEvents(), called after the backfill or by the timer: returns for good if
\* not isRunning, else queries as the backfill does.
PollEvents(l) ==
    /\ loops[l].pc = "pending"
    /\ \E answered \in BOOLEAN :
          loops' = [loops EXCEPT ![l] =
                       IF ~isRunning THEN NoLoop
                       ELSE IF answered THEN BeginPass(QueryEvents(chainEvents))
                       ELSE BeginPass(<<>>)]
    /\ UNCHANGED <<chainEvents, isRunning, dbDatasets, dbAccessRecords, outsideIndexer>>

\* processAccessEvent: prisma.dataset.findFirst({ where: { datasetId } })
FindDataset(l) ==
    /\ loops[l].pc = "findDataset"
    /\ LET event == chainEvents[Head(loops[l].queue)]
       IN  loops' = [loops EXCEPT ![l].pc =
                        IF dbDatasets[event.dataset_id].exists
                        THEN "findExisting" ELSE "createDataset"]
    /\ UNCHANGED <<chainEvents, isRunning, dbDatasets, dbAccessRecords, outsideIndexer>>

\* processAccessEvent: prisma.dataset.create; Dataset.datasetId is unique, so
\* the create throws if the row has appeared meanwhile.
CreateDataset(l) ==
    /\ loops[l].pc = "createDataset"
    /\ LET event == chainEvents[Head(loops[l].queue)]
       IN  IF dbDatasets[event.dataset_id].exists
           THEN /\ loops' = [loops EXCEPT ![l] = EndEvent(loops[l])]
                /\ UNCHANGED dbDatasets
           ELSE /\ dbDatasets' = [dbDatasets EXCEPT ![event.dataset_id] =
                                     [exists |-> TRUE, downloads |-> 0,
                                      totalRevenue |-> 0,
                                      description |-> "Indexed from blockchain"]]
                /\ loops' = [loops EXCEPT ![l].pc = "findExisting"]
    /\ UNCHANGED <<chainEvents, isRunning, dbAccessRecords, outsideIndexer>>

\* processAccessEvent: prisma.accessRecord.findFirst({ where: { txHash } })
FindExisting(l) ==
    /\ loops[l].pc = "findExisting"
    /\ LET event == chainEvents[Head(loops[l].queue)]
       IN  loops' = [loops EXCEPT ![l] =
                        IF FindAccessRecord(dbAccessRecords, event.txDigest)
                        THEN EndEvent(loops[l])
                        ELSE [loops[l] EXCEPT !.pc = "createRecord"]]
    /\ UNCHANGED <<chainEvents, isRunning, dbDatasets, dbAccessRecords, outsideIndexer>>

\* processAccessEvent: prisma.accessRecord.create; a database fault throws into
\* the catch.
CreateRecord(l) ==
    /\ loops[l].pc = "createRecord"
    /\ LET event == chainEvents[Head(loops[l].queue)]
       IN  \E fault \in BOOLEAN :
              IF fault
              THEN /\ loops' = [loops EXCEPT ![l] = EndEvent(loops[l])]
                   /\ UNCHANGED dbAccessRecords
              ELSE /\ dbAccessRecords' =
                         Append(dbAccessRecords,
                                [txHash |-> event.txDigest,
                                 datasetId |-> event.dataset_id,
                                 stakeAmount |-> event.stake_amount])
                   /\ loops' = [loops EXCEPT ![l].pc = "updateMetrics"]
    /\ UNCHANGED <<chainEvents, isRunning, dbDatasets, outsideIndexer>>

\* processAccessEvent: prisma.dataset.update with the two increments; a
\* database fault throws into the catch.
UpdateMetrics(l) ==
    /\ loops[l].pc = "updateMetrics"
    /\ LET event == chainEvents[Head(loops[l].queue)]
           row == dbDatasets[event.dataset_id]
       IN  \E fault \in BOOLEAN :
              dbDatasets' =
                 IF fault THEN dbDatasets
                 ELSE [dbDatasets EXCEPT ![event.dataset_id] =
                          [row EXCEPT !.downloads = row.downloads + 1,
                                      !.totalRevenue = row.totalRevenue
                                                       + event.stake_amount]]
    /\ loops' = [loops EXCEPT ![l] = EndEvent(loops[l])]
    /\ UNCHANGED <<chainEvents, isRunning, dbAccessRecords, outsideIndexer>>

NextIndexer ==
    \/ LedgerEmitsAccessGranted
    \/ Start
    \/ Stop
    \/ ProcessExit
    \/ \E l \in Loops : Backfill(l)
    \/ \E l \in Loops : PollEvents(l)
    \/ \E l \in Loops : FindDataset(l)
    \/ \E l \in Loops : CreateDataset(l)
    \/ \E l \in Loops : FindExisting(l)
    \/ \E l \in Loops : CreateRecord(l)
    \/ \E l \in Loops : UpdateMetrics(l)

SpecIndexer == InitIndexer /\ [][NextIndexer]_vars

\* No pass stands inside processAccessEvent.
NoEventInHand ==
    \A l \in Loops : loops[l].pc \in {"idle", "backfill", "pending"}

RECURSIVE SumStakes(_, _)
SumStakes(rows, txs) ==
    IF txs = {} THEN 0
    ELSE LET tx == CHOOSE t \in txs : TRUE
             i == CHOOSE j \in DOMAIN rows : rows[j].txHash = tx
         IN  rows[i].stakeAmount + SumStakes(rows, txs \ {tx})

\* The transaction digests with a row under the dataset.
IndexedTxs(d) ==
    {dbAccessRecords[i].txHash :
        i \in {j \in DOMAIN dbAccessRecords : dbAccessRecords[j].datasetId = d}}

\* C1: whatever the polls, backfills, stops, starts and restarts, the projection
\* never holds two AccessRecord rows with one event's transaction digest, and
\* once no pass has an event in hand each dataset's downloads and totalRevenue
\* have grown by exactly 1 and by the stake for every event that has a row.
C1_IndexerIdempotent ==
    /\ \A e \in DOMAIN chainEvents :
          Cardinality(RowsOf(dbAccessRecords, chainEvents[e].txDigest)) <= 1
    /\ NoEventInHand =>
          \A d \in Datasets :
             /\ dbDatasets[d].downloads = Cardinality(IndexedTxs(d))
             /\ dbDatasets[d].totalRevenue = SumStakes(dbAccessRecords, IndexedTxs(d))

\* Where a pass stands while it has an event of its page in hand.
InPass == {"findDataset", "createDataset", "findExisting", "createRecord",
           "updateMetrics"}

\* C13: once stop() has cleared isRunning and start() has not set it again, no
\* pass begins: a pollEvents that is due (after a backfill or by the timer)
\* starts a pass only while isRunning holds.  stop() ends no pass that is under
\* way: a pass with an event in hand goes on to its next step, and is lost only
\* when the whole process ends.
C13_NoNewCycleAfterStop ==
    [][\A l \in Loops :
          /\ (loops[l].pc = "pending" /\ loops'[l].pc \in InPass) => isRunning
          /\ (loops[l].pc \in InPass /\ loops'[l].pc = "idle")
                => \A k \in Loops : loops'[k] = NoLoop]_vars

\* stop() was called while a pass had an event in hand, and the pass is going on.
C13_Witness ==
    /\ ~isRunning
    /\ \E l \in Loops : loops[l].pc = "updateMetrics"
    /\ \E l \in Loops : loops[l].pc = "idle"

\* C14: every recordAccess call that returned a download URL gets its one
\* AccessRecord row.  The indexer writes a row only from an AccessGranted event
\* of the ledger, so at every moment the last grant has its row already or has
\* left the event its row will be made from (the event's purpose is the
\* request's).
C14_GrantHasRowOrEvent ==
    accessLog.downloadUrl
    => \/ Len(dbAccessRecords) >= 1
       \/ \E e \in DOMAIN accessGranted : accessGranted[e].purpose = accessLog.seq

\* The stores a verification run may write: the ledger's oracle, the persisted
\* score and its history, the memory store, the verification cache.
nautilusStores == <<trustOracle, dbTrust, dbTrustHistory, memTrust, verificationCache>>

\* C15: when the enclave is unreachable, answers with a non-success status or an
\* unparsable body, or the 20 s timeout fires, requestNautilusVerification
\* raises to its caller: no TrustScore is calculated or handed to the publisher,
\* and the ledger's oracle, the persisted score and history, the memory store
\* and the cache are what they were before the request.
C15_AttestorFailsLoudly ==
    [][(nautilusRun'.reply \in EnclaveFailures /\ nautilusRun' # nautilusRun)
          => /\ nautilusRun'.status = "threw"
             /\ nautilusRun'.trustScore = NoTrust
             /\ ~nautilusRun'.proof.present
             /\ nautilusRun'.publisher = "none"
             /\ UNCHANGED nautilusStores]_vars

\* A request failed at the enclave after an earlier one had been merged: the
\* earlier score is still the one persisted and cached.
C15_Witness ==
    /\ nautilusRun.reply = "timeout"
    /\ nautilusRun.status = "threw"
    /\ Len(dbTrustHistory) = 1
    /\ dbTrust.computed
    /\ verificationCache.present

\* prisma.dataset.findUnique({ include: { accessRecords: { orderBy: { timestamp:
\* 'desc' } } } }): the dataset's rows, latest timestamp first.  A row's
\* timestamp is its event's timestampMs, which grows with the event's place on
\* the ledger, the number the model uses as transaction digest; rows with one
\* timestamp come in the order they were written.
RECURSIVE OrderByTimestampDesc(_, _)
OrderByTimestampDesc(rows, among) ==
    IF among = {} THEN <<>>
    ELSE LET i == CHOOSE k \in among :
                     \A j \in among : \/ rows[j].txHash < rows[k].txHash
                                      \/ rows[j].txHash = rows[k].txHash /\ j >= k
         IN  <<rows[i]>> \o OrderByTimestampDesc(rows, among \ {i})

\* toDatasetRecord(d).timeline: one 'access_request' event per included row, in
\* the rows' order, and nothing else.
ToDatasetRecordTimeline(accessRecords) ==
    [k \in DOMAIN accessRecords |->
        [type |-> "access_request", tx |-> accessRecords[k].txHash]]

\* getDataset(datasetId).timeline
GetDatasetTimeline(d) ==
    ToDatasetRecordTimeline(
        OrderByTimestampDesc(dbAccessRecords,
            {i \in DOMAIN dbAccessRecords : dbAccessRecords[i].datasetId = d}))

\* The place of an event's kind in the order of the causing actions.
CausalRank(type) ==
    CASE type = "upload" -> 0 [] type = "certificate_minted" -> 1 [] OTHER -> 2

\* C16: the timeline getDataset returns lists its events in the order their
\* causing actions occurred: upload before certificate mint before accesses,
\* and the accesses in the order the ledger granted them, so that a new event
\* is only ever added at the end.
C16_TimelineCausallyOrdered ==
    \A d \in Datasets :
       LET timeline == GetDatasetTimeline(d)
       IN  \A i, j \in DOMAIN timeline :
              i < j => /\ CausalRank(timeline[i].type) <= CausalRank(timeline[j].type)
                       /\ timeline[i].tx <= timeline[j].tx

\* ------------------------------------------------ specification SpecClaims
\* addClaim's severityMap: the code sent to the ledger's file_claim.
SeverityCode(severity) ==
    CASE severity = "info" -> 0 [] severity = "warning" -> 1 [] severity = "critical" -> 2

\* PrismaService.mapSeverity: the label stored in the Claim row.
MapSeverity(severity) ==
    CASE severity = "info" -> "low"
      [] severity = "warning" -> "medium"
      [] severity = "critical" -> "critical"
      [] OTHER -> "medium"

\* mapSeverityReverse with no entry for 'critical'.
MapSeverityReverseNoCritical(label) ==
    CASE label = "low" -> "info"
      [] label = "medium" -> "warning"
      [] label = "high" -> "critical"
      [] OTHER -> "info"

\* PrismaService.mapSeverityReverse: the severity read back from a Claim row.
MapSeverityReverse(label) ==
    CASE label = "low" -> "info"
      [] label = "medium" -> "warning"
      [] label = "high" -> "critical"
      [] label = "critical" -> "critical"
      [] OTHER -> "info"

\* processClaimEvent: severityMap[data.severity] || 'medium'
IndexerSeverityLabel(code) ==
    CASE code = 0 -> "low" [] code = 1 -> "medium" [] code = 2 -> "critical"
      [] OTHER -> "medium"

\* toDatasetRecord(d).claims: the severities read back from the Claim rows.
ToDatasetRecordClaims(rows) ==
    [k \in DOMAIN rows |-> MapSeverityReverse(rows[k].severity)]

\* file_claim that leaves the registry's counter where it was.
file_claim_counter_stuck(registry, events, dataset_id, severity, statement) ==
    LET claim_id == registry.counter
    IN  [answer |-> Executed,
         registry |->
            [records |-> Append(registry.records,
                                [id |-> claim_id, dataset_id |-> dataset_id,
                                 severity |-> severity, statement |-> statement]),
             counter |-> claim_id],
         events |-> Append(events, [dataset_id |-> dataset_id, claim_id |-> claim_id,
                                    severity |-> severity])]

\* file_claim(registry, dataset_id, severity, statement, evidence_uri): the
\* registry and the emitted events after it.
file_claim(registry, events, dataset_id, severity, statement) ==
    LET claim_id == registry.counter
    IN  [answer |-> Executed,
         registry |->
            [records |-> Append(registry.records,
                                [id |-> claim_id, dataset_id |-> dataset_id,
                                 severity |-> severity, statement |-> statement]),
             counter |-> claim_id + 1],
         events |-> Append(events, [dataset_id |-> dataset_id, claim_id |-> claim_id,
                                    severity |-> severity])]

\* The dataset "d1" is registered; the process may have restarted since (the
\* memory store is then empty), with or without a signing key.
\* The Dataset rows when one dataset has been registered and none indexed.
RegisteredOnly(id) ==
    [d \in Datasets |->
        IF d = id
        THEN [exists |-> TRUE, downloads |-> 0, totalRevenue |-> 0,
              description |-> "registered"]
        ELSE NoDatasetRow]

InitClaims ==
    /\ config \in [nautilusServerUrl : {""},
                   keypair : BOOLEAN,
                   suiClaimRegistry : {RefPlaceholder, RefObject},
                   suiAccessRegistry : {RefPlaceholder},
                   suiAccessRecorderCap : {RefPlaceholder},
                   suiTrustOracle : {RefPlaceholder},
                   suiOracleCap : {RefPlaceholder},
                   suiNautilusVerifier : {RefPlaceholder}]
    /\ dbClaims = <<>>
    /\ memClaims \in [inStore : BOOLEAN, claims : {<<>>}]
    /\ claimRegistry = [records |-> <<>>, counter |-> 0]
    /\ claimRaised = <<>>
    /\ claimLog = NoClaimCall
    /\ indexedSeverity = <<>>
    /\ ledgerCall = NoLedgerOp
    /\ RegisterIdle
    /\ SuspensionIdle
    /\ ScoreIdle
    /\ pubCall = NoCall
    /\ OracleIdle
    /\ NautilusIdle
    /\ AccessIdle
    /\ chainEvents = <<>>
    /\ isRunning = FALSE
    /\ loops = [l \in Loops |-> NoLoop]
    /\ dbDatasets = RegisteredOnly("d1")
    /\ dbAccessRecords = <<>>

outsideClaims == <<scoreVars, pubCall, oracleVars, nautVars, accessVars,
                   indexerVars, ledgerCall, registerVars, pending>>

\* datasetService.addClaim(input), the whole handler: prismaService.addClaim
\* (a database fault throws), the push onto the memory store's record,
\* suiClient.fileClaim (and the ledger's file_claim when the transaction is
\* submitted and arrives), the dataset read back.  The claim's statement is its
\* sequence number.
AddClaim ==
    /\ Len(claimLog.filed) < MaxFiled
    /\ \E severity \in Severities, dbFault \in BOOLEAN,
          transport \in {Executed, Fault("network_fault")} :
        LET seq == Len(claimLog.filed) + 1
            code == SeverityCode(severity)
            rows == Append(dbClaims, [severity |-> MapSeverity(severity),
                                      statement |-> seq])
            arrives == config.keypair /\ transport = Executed
                       /\ IsValidObjectId(config.suiClaimRegistry)
            onLedger == file_claim(claimRegistry, claimRaised, "d1", code, seq)
            answer == IF ~IsValidObjectId(config.suiClaimRegistry)
                      THEN Fault("invalid_object")
                      ELSE IF transport # Executed THEN transport
                      ELSE onLedger.answer
            tx == SuiFileClaim(config, answer)
        IN  IF dbFault
            THEN /\ claimLog' = [claimLog EXCEPT !.end = "threw",
                                    !.severity = severity, !.code = -1,
                                    !.publisher = "none", !.returned = <<>>]
                 /\ UNCHANGED <<dbClaims, memClaims, claimRegistry, claimRaised>>
            ELSE /\ dbClaims' = rows
                 /\ memClaims' = IF memClaims.inStore
                                 THEN [memClaims EXCEPT
                                          !.claims = Append(@, severity)]
                                 ELSE memClaims
                 /\ claimRegistry' = IF arrives THEN onLedger.registry
                                     ELSE claimRegistry
                 /\ claimRaised' = IF arrives THEN onLedger.events ELSE claimRaised
                 /\ claimLog' = [filed |-> Append(claimLog.filed, severity),
                                 end |-> "returned", severity |-> severity,
                                 code |-> code, publisher |-> tx.outcome,
                                 returned |-> ToDatasetRecordClaims(rows)]
    /\ UNCHANGED <<config, indexedSeverity, outsideClaims>>

\* processClaimEvent(event), for the next ClaimRaised event of a page: when
\* the event's dataset has no row it warns and returns; otherwise it derives
\* the label from the event's severity.  No row is written either way.
ProcessClaimEvent ==
    /\ Len(indexedSeverity) < Len(claimRaised)
    /\ LET event == claimRaised[Len(indexedSeverity) + 1]
       IN  indexedSeverity' =
              Append(indexedSeverity,
                     IF ~dbDatasets[event.dataset_id].exists THEN "not_derived"
                     ELSE IndexerSeverityLabel(event.severity))
    /\ UNCHANGED <<config, dbClaims, memClaims, claimRegistry, claimRaised,
                   claimLog, outsideClaims>>

NextClaims == AddClaim \/ ProcessClaimEvent

SpecClaims == InitClaims /\ [][NextClaims]_vars

update_trust_score(oracle, dataset_id, provenance_score, integrity_score, audit_score, usage_score, verified_by_nautilus) ==
    [answer |-> Executed,
     oracle |-> upsert_trust_score(oracle, dataset_id, provenance_score,
                                   integrity_score, audit_score, usage_score,
                                   verified_by_nautilus)]

\* get_trust_score(oracle, dataset_id): the record, or none (present = FALSE)
get_trust_score(oracle, dataset_id) ==
    IF oracle[dataset_id].present THEN oracle[dataset_id] ELSE NoOracleScore

\* u8 arguments a holder of the OracleCap may pass as the four sub-scores.
ScoreArguments == {<<25, 20, 15, 10>>, <<25, 25, 25, 25>>, <<255, 0, 26, 25>>}

\* u8 arguments anyone may pass to file_claim as severity.
SeverityArguments == {2, 7}

InitLedger ==
    /\ verifier \in {NoVerifierKey(pcrs) : pcrs \in {<<>>, <<"pcr0">>}}
    /\ trustOracle = [d \in Datasets |-> NoOracleScore]
    /\ certificate \in {mint_certificate(m) : m \in 0..1}
    /\ accessRegistry = [records |-> <<>>, counter |-> 0]
    /\ accessGranted = <<>>
    /\ claimRegistry = [records |-> <<>>, counter |-> 0]
    /\ claimRaised = <<>>
    /\ ledgerCall = NoLedgerOp
    /\ RegisterIdle
    /\ SuspensionIdle
    /\ ledgerLog = NoLedgerCall
    /\ datasetRow = RegisteredRow("public", Omitted, Simulated(RefMockCert))
    /\ memTimeline = [inStore |-> FALSE, timeline |-> <<>>]
    /\ accessLog = NoAccess
    /\ dbClaims = <<>>
    /\ memClaims = [inStore |-> FALSE, claims |-> <<>>]
    /\ claimLog = NoClaimCall
    /\ indexedSeverity = <<>>
    /\ ScoreIdle
    /\ PublisherIdle
    /\ NautilusIdle
    /\ IndexerIdle

\* The log entry of a transaction, with the ledger as it was before it.
Logged(op, dataset_id, args, flag, answer) ==
    [seq |-> ledgerCall.seq + 1, op |-> op, dataset_id |-> dataset_id,
     args |-> args, flag |-> flag, answer |-> answer, signer |-> "none",
     updated |-> IF op \in {"update_trust_score", "update_trust_score_with_nautilus"}
                    /\ answer = Executed
                 THEN ledgerCall.updated \cup {dataset_id}
                 ELSE ledgerCall.updated,
     oracleBefore |-> trustOracle, claimsBefore |-> claimRegistry,
     accessBefore |-> accessRegistry]

ledgerOffChain == <<scoreVars, pubVars, nautVars, indexerVars, ledgerLog, datasetRow,
                    memTimeline, accessLog, dbClaims, memClaims, claimLog,
                    indexedSeverity, registerVars, pending>>

\* A transaction calling update_trust_score, by a holder of the OracleCap.
LedgerUpdateTrustScore ==
    /\ ledgerCall.seq < MaxTx
    /\ \E d \in Datasets, s \in ScoreArguments, v \in BOOLEAN :
          LET tx == update_trust_score(trustOracle, d, s[1], s[2], s[3], s[4], v)
          IN  /\ trustOracle' = tx.oracle
              /\ ledgerCall' = Logged("update_trust_score", d, s, v, tx.answer)
    /\ UNCHANGED <<verifier, certificate, accessRegistry, accessGranted,
                   claimRegistry, claimRaised, ledgerOffChain>>

\* A transaction calling update_trust_score_with_nautilus, by a holder of the
\* OracleCap, with a signature of the enclave's key or of another.
LedgerUpdateTrustScoreWithNautilus ==
    /\ ledgerCall.seq < MaxTx
    /\ \E d \in Datasets, s \in ScoreArguments, key \in {EnclaveKey, "k_other"} :
          LET signature == [key |-> key,
                            message |-> IntentMessage(TRUE, "h1", "h1")]
              tx == update_trust_score_with_nautilus(
                        trustOracle, verifier, d, s[1], s[2], s[3], s[4],
                        TRUE, "h1", "h1", signature)
          IN  /\ trustOracle' = tx.oracle
              /\ ledgerCall' = [Logged("update_trust_score_with_nautilus", d, s,
                                       TRUE, tx.answer) EXCEPT !.signer = key]
    /\ UNCHANGED <<verifier, certificate, accessRegistry, accessGranted,
                   claimRegistry, claimRaised, ledgerOffChain>>

\* A transaction calling file_claim, by anyone.
LedgerFileClaim ==
    /\ ledgerCall.seq < MaxTx
    /\ \E d \in Datasets, severity \in SeverityArguments :
          LET tx == file_claim(claimRegistry, claimRaised, d, severity,
                               ledgerCall.seq + 1)
          IN  /\ claimRegistry' = tx.registry
              /\ claimRaised' = tx.events
              /\ ledgerCall' = Logged("file_claim", d, <<severity>>, FALSE, tx.answer)
    /\ UNCHANGED <<verifier, trustOracle, certificate, accessRegistry,
                   accessGranted, ledgerOffChain>>

\* A transaction calling record_access, by a holder of the AccessRecorderCap.
LedgerRecordAccess ==
    /\ ledgerCall.seq < MaxTx
    /\ \E stake_amount \in 0..1 :
          LET tx == record_access(accessRegistry, accessGranted, certificate,
                                  ledgerCall.seq + 1, stake_amount)
          IN  /\ accessRegistry' = tx.registry
              /\ accessGranted' = tx.events
              /\ ledgerCall' = Logged("record_access", "d1", <<stake_amount>>,
                                      FALSE, tx.answer)
    /\ UNCHANGED <<verifier, trustOracle, certificate, claimRegistry, claimRaised,
                   ledgerOffChain>>

NextLedger ==
    \/ LedgerUpdateTrustScore
    \/ LedgerUpdateTrustScoreWithNautilus
    \/ LedgerFileClaim
    \/ LedgerRecordAccess
    \/ RegisterNautilusPublicKey
    \/ MarkDisputed
    \/ RestoreCertificate

SpecLedger == InitLedger /\ [][NextLedger]_vars

\* C18: after update_trust_score(cap, oracle, d, p, i, a, u, v), get_trust_score
\* returns for d a record with score p + i + a + u, the four sub-scores p, i,
\* a, u and the flag v, whatever record d had before; the records of the other
\* dataset ids are what they were; and get_trust_score returns none for a
\* dataset id no transaction has updated.  (The oracle's table holds one
\* record per key by construction, in the ledger as in the model.)
C18_OracleUpsert ==
    /\ ledgerCall.op = "update_trust_score"
       => LET got == get_trust_score(trustOracle, ledgerCall.dataset_id)
              s == ledgerCall.args
          IN  /\ ledgerCall.answer = Executed
              /\ got.present
              /\ got.score = s[1] + s[2] + s[3] + s[4]
              /\ got.provenance_score = s[1]
              /\ got.integrity_score = s[2]
              /\ got.audit_score = s[3]
              /\ got.usage_score = s[4]
              /\ got.verified_by_nautilus = ledgerCall.flag
              /\ \A d \in Datasets \ {ledgerCall.dataset_id} :
                    trustOracle[d] = ledgerCall.oracleBefore[d]
    /\ \A d \in Datasets :
          d \notin ledgerCall.updated => ~get_trust_score(trustOracle, d).present

\* update_trust_score replaced an earlier, different record of d1 while d2 had
\* a record of its own and stayed as it was.
C18_Witness ==
    /\ ledgerCall.op = "update_trust_score"
    /\ ledgerCall.dataset_id = "d1"
    /\ ledgerCall.oracleBefore["d1"].present
    /\ ledgerCall.oracleBefore["d1"].score = 100
    /\ ledgerCall.oracleBefore["d1"].verified_by_nautilus
    /\ trustOracle["d1"].score = 70
    /\ ~trustOracle["d1"].verified_by_nautilus
    /\ trustOracle["d2"].present

\* Whether sequence s begins with sequence p.
IsPrefix(p, s) == Len(p) <= Len(s) /\ \A i \in DOMAIN p : s[i] = p[i]

\* A registry whose counter is the number of its records and whose records
\* carry the ids 0, 1, 2, ... in order.
Consistent(registry) ==
    /\ registry.counter = Len(registry.records)
    /\ \A i \in DOMAIN registry.records : registry.records[i].id = i - 1

\* The registry now is the registry before with exactly one record appended,
\* whose id is the counter before.
AppendedOne(before, now) ==
    /\ Len(now.records) = Len(before.records) + 1
    /\ IsPrefix(before.records, now.records)
    /\ now.records[Len(now.records)].id = before.counter
    /\ now.counter = before.counter + 1

\* C19: in every ledger state the ClaimRegistry's counter is the number of its
\* claim records and the AccessRegistry's counter the number of its access
\* records, with ids unique and increasing; a successful file_claim or
\* record_access appends exactly one record whose id is the counter before;
\* every other transaction, an aborted record_access included, leaves both
\* registries as they were.
C19_RegistriesAppendOnly ==
    /\ Consistent(claimRegistry)
    /\ Consistent(accessRegistry)
    /\ \A i, j \in DOMAIN claimRegistry.records :
          i < j => claimRegistry.records[i].id < claimRegistry.records[j].id
    /\ \A i, j \in DOMAIN accessRegistry.records :
          i < j => accessRegistry.records[i].id < accessRegistry.records[j].id
    /\ IF ledgerCall.op = "file_claim" /\ ledgerCall.answer = Executed
       THEN AppendedOne(ledgerCall.claimsBefore, claimRegistry)
       ELSE claimRegistry = ledgerCall.claimsBefore
    /\ IF ledgerCall.op = "record_access" /\ ledgerCall.answer = Executed
       THEN AppendedOne(ledgerCall.accessBefore, accessRegistry)
       ELSE accessRegistry = ledgerCall.accessBefore

\* A second claim was filed after an access had been recorded.
C19_Witness ==
    /\ ledgerCall.op = "file_claim"
    /\ ledgerCall.claimsBefore.counter = 1
    /\ claimRegistry.counter = 2
    /\ claimRegistry.records[2].id = 1
    /\ accessRegistry.counter = 1

\* C20: every TrustScore in the TrustOracle has its four sub-scores within
\* 0..25 and its score within 0..100, whatever update_trust_score and
\* update_trust_score_with_nautilus transactions the holder of the OracleCap
\* has sent.
C20_LedgerScoresInRange ==
    \A d \in Datasets :
       trustOracle[d].present
       => /\ trustOracle[d].provenance_score \in 0..25
          /\ trustOracle[d].integrity_score \in 0..25
          /\ trustOracle[d].audit_score \in 0..25
          /\ trustOracle[d].usage_score \in 0..25
          /\ trustOracle[d].score \in 0..100

\* The AccessRecord rows (by position) written under a dataset.
RowsUnder(d) == {i \in DOMAIN dbAccessRecords : dbAccessRecords[i].datasetId = d}

RECURSIVE SumRowStakes(_)
SumRowStakes(among) ==
    IF among = {} THEN 0
    ELSE LET i == CHOOSE k \in among : TRUE
         IN  dbAccessRecords[i].stakeAmount + SumRowStakes(among \ {i})

\* C21: an event is applied whole or not at all: whenever no pass stands
\* between the steps of an event (and so after every fault that ended one),
\* each dataset's downloads is the number of AccessRecord rows the indexer has
\* created for it and its totalRevenue the sum of their stake amounts; no row
\* is without its increment, no increment without its row.
C21_EventAppliedAtomically ==
    NoEventInHand
    => \A d \in Datasets :
          /\ dbDatasets[d].downloads = Cardinality(RowsUnder(d))
          /\ dbDatasets[d].totalRevenue = SumRowStakes(RowsUnder(d))

\* ---------------------------------------------- specification SpecBackfill
\* The ledger holds n AccessGranted events of dataset "d1", n from one short of
\* a page of queryEvents to MaxBeyond past it; none is indexed yet.  The
\* indexer is started once and keeps running: no stop(), no process exit, and
\* the database answers every statement.
LedgerSizes == (QueryLimit - 1)..(QueryLimit + MaxBeyond)

InitBackfill ==
    /\ \E n \in LedgerSizes :
          chainEvents = [i \in 1..n |->
                            [txDigest |-> i, dataset_id |-> "d1", stake_amount |-> 1]]
    /\ isRunning = FALSE
    /\ loops = [l \in Loops |-> NoLoop]
    /\ dbDatasets \in {[d \in Datasets |-> NoDatasetRow],
                       [d \in Datasets |->
                           IF d = "d1"
                           THEN [exists |-> TRUE, downloads |-> 0, totalRevenue |-> 0,
                                 description |-> "registered"]
                           ELSE NoDatasetRow]}
    /\ dbAccessRecords = <<>>
    /\ ScoreIdle
    /\ PublisherIdle
    /\ OracleIdle
    /\ NautilusIdle
    /\ AccessIdle
    /\ ClaimsIdle
    /\ ledgerCall = NoLedgerOp
    /\ RegisterIdle
    /\ SuspensionIdle

NextBackfill ==
    \/ Start
    \/ \E l \in Loops : Backfill(l)
    \/ \E l \in Loops : PollEvents(l)
    \/ \E l \in Loops : FindDataset(l)
    \/ \E l \in Loops : CreateDataset(l)
    \/ \E l \in Loops : FindExisting(l)
    \/ \E l \in Loops : CreateRecord(l) /\ dbAccessRecords' # dbAccessRecords
    \/ \E l \in Loops : UpdateMetrics(l) /\ dbDatasets' # dbDatasets

\* The event loop runs every continuation that is due, the timer fires, and
\* the ledger's RPC node answers a query sooner or later.
SpecBackfill == InitBackfill /\ [][NextBackfill]_vars /\ WF_vars(NextBackfill)

\* C22: while the indexer keeps running, every AccessGranted event on the
\* ledger, however many there are, sooner or later has its AccessRecord row
\* and keeps it.
C22_EveryEventEventuallyIndexed ==
    <>[](\A e \in DOMAIN chainEvents :
            FindAccessRecord(dbAccessRecords, chainEvents[e].txDigest))

\* ------------------------------------------- specification SpecClaimEvents
\* Claims are filed on the ledger directly, for the registered dataset "d1"
\* and for "d2", which has no row in the projection; the indexer processes the
\* ClaimRaised events in order.
InitClaimEvents ==
    /\ chainEvents = <<>>
    /\ isRunning = FALSE
    /\ loops = [l \in Loops |-> NoLoop]
    /\ dbDatasets = RegisteredOnly("d1")
    /\ dbAccessRecords = <<>>
    /\ ScoreIdle
    /\ PublisherIdle
    /\ OracleIdle
    /\ NautilusIdle
    /\ AccessIdle
    /\ ClaimsIdle
    /\ ledgerCall = NoLedgerOp
    /\ RegisterIdle
    /\ SuspensionIdle

NextClaimEvents == LedgerFileClaim \/ ProcessClaimEvent

SpecClaimEvents == InitClaimEvents /\ [][NextClaimEvents]_vars

\* C23: a ClaimRaised event whose dataset has no row in the projection is not
\* discarded: once processClaimEvent has handled it the projection holds a
\* (placeholder) row for the dataset and the event has been taken up.
C23_UnknownDatasetGetsPlaceholder ==
    \A e \in DOMAIN indexedSeverity :
       /\ dbDatasets[claimRaised[e].dataset_id].exists
       /\ indexedSeverity[e] # "not_derived"

\* The passes alive: in their backfill, with an event in hand, or waiting for
\* their next pollEvents.
LiveLoops == {l \in Loops : loops[l].pc # "idle"}

\* C24: whatever start() and stop() calls were made, at most one poll loop is
\* alive, so no two passes work on the events at the same time.
C24_SinglePollLoop ==
    /\ Cardinality(LiveLoops) <= 1
    /\ Cardinality({l \in Loops : loops[l].pc \in InPass}) <= 1

\* C25: update_trust_score_with_nautilus changes the TrustOracle only when an
\* enclave key is registered, the signature is the enclave key's over the
\* envelope rebuilt from the arguments, and the enclave's measurements were
\* matched against a non-empty expected_pcrs (the verifier then holds the
\* attestation the key came from); otherwise it aborts and the oracle is as
\* it was.
C25_ProofAcceptance ==
    ledgerCall.op = "update_trust_score_with_nautilus"
    => IF /\ verifier.enclave_public_key # "none"
          /\ ledgerCall.signer = verifier.enclave_public_key
          /\ verifier.expected_pcrs # <<>>
          /\ verifier.last_attestation # "none"
       THEN ledgerCall.answer = Executed
       ELSE /\ ledgerCall.answer.kind = "abort"
            /\ trustOracle = ledgerCall.oracleBefore

\* Whether every probe of a sequence ended in a network-level failure.
AllNetworkFailures(probes) == \A i \in DOMAIN probes : probes[i] = "network_error"

\* C26: for the root of the dataset just verified and however the two probes
\* end: an empty root is invalid; a probe that succeeds makes the root valid;
\* the root is assumed valid, being non-empty, only when every probe failed at
\* network level, so a probe answered with a non-success status (and none
\* succeeding) leaves it invalid; and the result of a verification whose root
\* was assumed valid differs from the result of one whose root a probe
\* confirmed.
C26_IntegrityRootProbing ==
    (integrity.present /\ ~integrity.raised /\ ~integrity.fetchFailed)
    => /\ integrity.integrityRootValid => dataset.integrityRoot # ""
       /\ \A probes \in [1..2 -> ProbeOutcomes] :
             LET valid == VerifyIntegrityRoot(dataset.integrityRoot, probes)
                 confirmed == \E i \in DOMAIN probes : probes[i] = "ok"
             IN  /\ dataset.integrityRoot = "" => ~valid
                 /\ (dataset.integrityRoot # "" /\ confirmed) => valid
                 /\ (~confirmed /\ ~AllNetworkFailures(probes)) => ~valid
                 /\ (dataset.integrityRoot # "" /\ AllNetworkFailures(probes)) => valid
       /\ dataset.integrityRoot # ""
             => VerifyDataIntegrity(dataset, "ok", "h1", "h1", <<"ok", "ok">>)
                # VerifyDataIntegrity(dataset, "ok", "h1", "h1",
                                     <<"network_error", "network_error">>)

\* C29: after every requestNautilusVerification whose ledger submission is
\* accepted, the verifiedByNautilus flag of the TrustScore persisted off-chain
\* equals the verified_by_nautilus flag the ledger's TrustOracle stores for the
\* dataset, whatever the proof's verified field is.
C29_VerifiedFlagAgrees ==
    (/\ nautilusRun.status = "returned"
     /\ nautilusRun.publisher = "receipt"
     /\ nautilusRun.answer = Executed)
    => dbTrust.verifiedByNautilus
          = trustOracle[NautilusDataset].verified_by_nautilus

\* ---------------------------------------------- specification SpecRegister
\* datasetService.registerDataset, step by step at its awaits, beside the
\* indexer's passes and the ledger.  The projection starts empty; the indexer
\* has not been started.
InitRegister ==
    /\ uploadSessions = {}
    /\ registrations = [c \in RegisterCalls |-> NoRegistration]
    /\ IndexerIdle
    /\ ScoreIdle
    /\ PublisherIdle
    /\ OracleIdle
    /\ NautilusIdle
    /\ AccessIdle
    /\ ClaimsIdle
    /\ ledgerCall = NoLedgerOp
    /\ SuspensionIdle

outsideRegister == <<scoreVars, pubVars, oracleVars, nautVars, accessVars,
                     claimVars, ledgerCall, pending>>

\* createUploadSession(payload): a session under a fresh id.
CreateUploadSession ==
    /\ \E s \in SessionIds :
          /\ s \notin uploadSessions
          /\ \A c \in RegisterCalls : registrations[c].sessionId # s
          /\ uploadSessions' = uploadSessions \cup {s}
    /\ UNCHANGED <<registrations, indexerVars, outsideRegister>>

\* registerDataset(input), up to its await on suiClient.mintCertificate: the
\* session is looked up, and the call throws 'Upload session not found or
\* expired' if the map does not hold it.
RegisterLookup(c) ==
    /\ registrations[c].pc = "idle"
    /\ \A b \in RegisterCalls : b < c => registrations[b].pc # "idle"
    /\ \E s \in SessionIds \cup {UnknownSession} :
          registrations' = [registrations EXCEPT ![c] =
              [pc |-> IF s \in uploadSessions THEN "minting" ELSE "failed",
               sessionId |-> s,
               datasetId |-> IF s \in uploadSessions THEN DatasetIdOf(c) ELSE "none",
               minted |-> FALSE, wrote |-> FALSE]]
    /\ UNCHANGED <<uploadSessions, indexerVars, outsideRegister>>

\* registerDataset, from the answer of mintCertificate (a certificate id, real
\* or mock: the publisher does not throw) to its await on
\* prismaService.upsertDataset: the record is built with zero metrics and the
\* session is deleted from the map.
RegisterMinted(c) ==
    /\ registrations[c].pc = "minting"
    /\ registrations' = [registrations EXCEPT ![c].pc = "upserting",
                                              ![c].minted = TRUE]
    /\ uploadSessions' = uploadSessions \ {registrations[c].sessionId}
    /\ UNCHANGED <<indexerVars, outsideRegister>>

\* PrismaService.upsertDataset(record): the row's columns built from the
\* record, its counters among them; an existing row is updated with them, a
\* missing one created.
upsertDataset(rows, datasetId, downloads, revenueWal) ==
    [rows EXCEPT ![datasetId] =
        [exists |-> TRUE, downloads |-> downloads, totalRevenue |-> revenueWal,
         description |-> "registered"]]

\* registerDataset, from the answer of upsertDataset to its end: the trust
\* score is computed and saved (saveTrustScore writes the row's trust columns
\* only) and the record goes to the memory store.
RegisterUpsert(c) ==
    /\ registrations[c].pc = "upserting"
    /\ dbDatasets' = upsertDataset(dbDatasets, registrations[c].datasetId, 0, 0)
    /\ registrations' = [registrations EXCEPT ![c].pc = "done", ![c].wrote = TRUE]
    /\ UNCHANGED <<uploadSessions, chainEvents, isRunning, loops, dbAccessRecords,
                   outsideRegister>>

\* The holder of the AccessRecorderCap has record_access executed on a minted
\* certificate: one more AccessGranted event.
RecordAccessOnMinted ==
    /\ Len(chainEvents) < MaxEvents
    /\ \E c \in RegisterCalls :
          /\ registrations[c].minted
          /\ chainEvents' = Append(chainEvents,
                                   [txDigest |-> Len(chainEvents) + 1,
                                    dataset_id |-> registrations[c].datasetId,
                                    stake_amount |-> 1])
    /\ UNCHANGED <<isRunning, loops, dbDatasets, dbAccessRecords, registerVars,
                   outsideRegister>>

NextRegister ==
    \/ CreateUploadSession
    \/ \E c \in RegisterCalls : RegisterLookup(c)
    \/ \E c \in RegisterCalls : RegisterMinted(c)
    \/ \E c \in RegisterCalls : RegisterUpsert(c)
    \/ RecordAccessOnMinted
    \/ Start
    \/ \E l \in Loops : Backfill(l)
    \/ \E l \in Loops : PollEvents(l)
    \/ \E l \in Loops : FindDataset(l)
    \/ \E l \in Loops : CreateDataset(l)
    \/ \E l \in Loops : FindExisting(l)
    \/ \E l \in Loops : CreateRecord(l)
    \/ \E l \in Loops : UpdateMetrics(l)

SpecRegister == InitRegister /\ [][NextRegister]_vars

\* C28: no operation (the indexer applying an event, the upsert of a
\* registration, the saving of a score) decreases or resets the downloads or
\* totalRevenue counter of any dataset's row.
C28_CountersOnlyGrow ==
    [][\A d \in Datasets :
          /\ dbDatasets'[d].downloads >= dbDatasets[d].downloads
          /\ dbDatasets'[d].totalRevenue >= dbDatasets[d].totalRevenue]_vars

\* The calls that took the session and went on to mint.
Registered(s) ==
    {c \in RegisterCalls : registrations[c].sessionId = s /\ registrations[c].minted}

\* C30: each upload session registers at most one dataset, however the
\* registerDataset calls interleave; a call on a session the map does not hold
\* fails, mints nothing and writes nothing to the projection.
C30_SessionsSingleUse ==
    /\ \A s \in SessionIds : Cardinality(Registered(s)) <= 1
    /\ \A c \in RegisterCalls :
          registrations[c].pc = "failed"
              => ~registrations[c].minted /\ ~registrations[c].wrote
    /\ \A c \in RegisterCalls :
          registrations[c].sessionId = UnknownSession
              => registrations[c].pc = "failed"

\* -------------------------------------------- specification SpecSuspension
\* The three operations that await the network, each followed from one
\* network call to the next.  The remote side of a call may answer, fail, or
\* never answer; a timer ends a call only where the code arms one.

\* The timers the code arms around its network calls: callNautilusServer's
\* AbortController, aborted after DEFAULT_TIMEOUT_MS.  The fetches of
\* verifyDataIntegrity and verifyIntegrityRoot, signAndExecuteTransaction and
\* queryEvents are called with no signal and no timeout option.
HasExplicitTimeout(call) == call = "enclave_post"

FirstCall(op) ==
    CASE op = "verifyDataIntegrity" -> "blob_download"
      [] op = "requestNautilusVerification" -> "enclave_post"
      [] op = "pollEvents" -> "query_access_events"

InitSuspension ==
    /\ pending = [op \in AsyncOperations |-> NotStarted]
    /\ config \in [nautilusServerUrl : {"http://enclave"},
                   keypair : BOOLEAN,
                   suiClaimRegistry : {RefPlaceholder},
                   suiAccessRegistry : {RefPlaceholder},
                   suiAccessRecorderCap : {RefPlaceholder},
                   suiTrustOracle : {RefObject},
                   suiOracleCap : {RefObject},
                   suiNautilusVerifier : {RefObject}]
    /\ pubCall = NoCall
    /\ ScoreIdle
    /\ OracleIdle
    /\ NautilusIdle
    /\ AccessIdle
    /\ IndexerIdle
    /\ ClaimsIdle
    /\ ledgerCall = NoLedgerOp
    /\ RegisterIdle

outsideSuspension == <<scoreVars, pubVars, oracleVars, nautVars, accessVars,
                       indexerVars, claimVars, ledgerCall, registerVars>>

Waiting(op, call) ==
    [pending[op] EXCEPT !.pc = "waiting", !.call = call,
                        !.timer = HasExplicitTimeout(call)]

Ended(op, pc, end) ==
    [pending[op] EXCEPT !.pc = pc, !.call = "none", !.timer = FALSE, !.end = end]

\* The operation is called and reaches its first network call.
Enter(op) ==
    /\ pending[op].pc # "waiting"
    /\ pending[op].runs < MaxRuns
    /\ pending' = [pending EXCEPT ![op] =
                      [Waiting(op, FirstCall(op)) EXCEPT !.end = "none",
                                                         !.runs = @ + 1]]
    /\ UNCHANGED outsideSuspension

\* Where the operation goes once its call in flight has ended, well (ok) or
\* not: with an error response, a network error, or its timer's abort.
AfterCall(op, ok, hasRoot) ==
    LET call == pending[op].call
    IN  CASE call = "blob_download" ->
                IF ~ok THEN Ended(op, "returned", "all_false")
                ELSE IF hasRoot THEN Waiting(op, "integrity_probe_1")
                ELSE Ended(op, "returned", "root_invalid")
          [] call = "integrity_probe_1" ->
                IF ok THEN Ended(op, "returned", "root_found")
                ELSE Waiting(op, "integrity_probe_2")
          [] call = "integrity_probe_2" ->
                IF ok THEN Ended(op, "returned", "root_found")
                ELSE Ended(op, "returned", "root_assumed")
          [] call = "enclave_post" ->
                IF ~ok THEN Ended(op, "threw", "enclave_error")
                ELSE IF SuiUpdateTrustScoreWithNautilus(config, Executed).attempted
                THEN Waiting(op, "ledger_submission")
                ELSE Ended(op, "returned", "simulated")
          [] call = "ledger_submission" ->
                Ended(op, "returned",
                      SuiUpdateTrustScoreWithNautilus(
                          config, IF ok THEN Executed
                                  ELSE Fault("network_fault")).outcome)
          [] call = "query_access_events" -> Waiting(op, "query_claim_events")
          [] call = "query_claim_events" ->
                Ended(op, "returned", "next_poll_scheduled")

\* The remote side answers the call in flight.
RemoteAnswers(op) ==
    /\ pending[op].pc = "waiting"
    /\ \E ok \in BOOLEAN, hasRoot \in BOOLEAN :
          pending' = [pending EXCEPT ![op] = AfterCall(op, ok, hasRoot)]
    /\ UNCHANGED outsideSuspension

\* The timer armed around the call in flight fires and aborts it.
TimeoutFires(op) ==
    /\ pending[op].pc = "waiting"
    /\ pending[op].timer
    /\ pending' = [pending EXCEPT ![op] = AfterCall(op, FALSE, FALSE)]
    /\ UNCHANGED outsideSuspension

NextSuspension ==
    \/ \E op \in AsyncOperations : Enter(op)
    \/ \E op \in AsyncOperations : RemoteAnswers(op)
    \/ \E op \in AsyncOperations : TimeoutFires(op)

\* A timer that is armed fires; nothing obliges the remote side to answer.
SpecSuspension ==
    /\ InitSuspension
    /\ [][NextSuspension]_vars
    /\ \A op \in AsyncOperations : WF_vars(TimeoutFires(op))

\* C27: every network call in flight is guarded by a timer, and each of
\* verifyDataIntegrity, requestNautilusVerification and a poll cycle that has
\* been entered eventually returns a result or an error, even if the remote
\* side never answers.
C27_BoundedSuspension ==
    /\ [](\A op \in AsyncOperations :
            pending[op].pc = "waiting" => pending[op].timer)
    /\ \A op \in AsyncOperations :
          (pending[op].pc = "waiting") ~> (pending[op].pc \in {"returned", "threw"})

====
